---- MODULE Spec2Model ----
(***************************************************************************)
(* A model of the secure execution path of the analytics dashboard:        *)
(*   lib/db.ts            withDbUserContext  (transaction + access scope)  *)
(*   lib/authed-db.ts     withAuthedDb       (requireAuth + the above)     *)
(*   lib/secure-report.ts withSecureReport   (scope read-back, PII rules)  *)
(*   lib/anonymize.ts     anonymizeRowsWithRules (masking)                 *)
(*   app/api/**           the route handlers built on them                 *)
(*                                                                         *)
(* A JavaScript string is a sequence of one-character strings, so that     *)
(* trim() is computed, not assumed.  null/undefined is the value Null.     *)
(***************************************************************************)
EXTENDS Integers, Sequences, FiniteSets, TLC

\* ------------------------------------------------------------------ bounds
\* Requests in flight at once.
NumRequests == 2
\* Connections the pool may hold.
PoolSize == 1
\* Queries one callback issues at most.
MaxQueries == 1
\* Rows of meta.pii_columns.
MaxRules == 2
\* Rows a report query returns.
MaxRows == 2
MaxDeps == 2
MaxPreds == 1
MaxFields == 2

Requests == 1..NumRequests
Conns == 1..PoolSize

\* ----------------------------------------------------------------- strings
Null == <<"<null>">>

RECURSIVE TrimStart(_)
TrimStart(s) == IF s # <<>> /\ Head(s) = " " THEN TrimStart(Tail(s)) ELSE s

RECURSIVE TrimEnd(_)
TrimEnd(s) == IF s # <<>> /\ s[Len(s)] = " " THEN TrimEnd(SubSeq(s, 1, Len(s) - 1)) ELSE s

\* String.prototype.trim
Trim(s) == TrimEnd(TrimStart(s))

\* x ?? ""
OrEmpty(x) == IF x = Null THEN <<>> ELSE x

\* String(x)
JsString(x) == IF x = Null THEN <<"n", "u", "l", "l">> ELSE x

\* context.is_admin ? "true" : "false"
BoolText(b) == IF b THEN <<"t", "r", "u", "e">> ELSE <<"f", "a", "l", "s", "e">>

\* ------------------------------------------------------------------- users
NoUser == [sis_user_id |-> Null, is_admin |-> FALSE]

\* The account behind the session cookie of each of the concurrent requests:
\* an admin and a non-admin, in turn.
SessionUsers(r) ==
  IF r % 2 = 1
    THEN { [sis_user_id |-> <<"1">>, is_admin |-> TRUE] }
    ELSE { [sis_user_id |-> <<"2">>, is_admin |-> FALSE] }

\* ------------------------------------------------- a PostgreSQL connection
NoSettings == [sis |-> Null, admin |-> Null]

\* A slot of the pool: absent (no connection), idle (in the pool) or busy
\* (checked out).  loc are the transaction-local settings, sess the
\* session-level ones; owner is the request whose BEGIN opened the open
\* transaction; scopes are the app.sis_user_id values set_config was ever
\* given on this connection (history, read by no operation).
FreshConn ==
  [st |-> "absent", alive |-> TRUE, inTxn |-> FALSE, owner |-> 0,
   loc |-> NoSettings, sess |-> NoSettings, scopes |-> {}]

\* current_setting(name, true)
CurrentSetting(cn, name) ==
  IF cn.loc[name] # Null THEN cn.loc[name] ELSE cn.sess[name]

\* The end of a transaction (COMMIT or ROLLBACK): local settings revert.
EndTxn(cn) == [cn EXCEPT !.inTxn = FALSE, !.owner = 0, !.loc = NoSettings]

\* The connection broke: the server session, its transaction and its
\* settings are gone, and every later query on the client fails.
Lost(cn) ==
  [cn EXCEPT !.alive = FALSE, !.inTxn = FALSE, !.owner = 0,
             !.loc = NoSettings, !.sess = NoSettings]

\* How a statement can end on a connection: "ok", "error" (the statement
\* failed, the connection lives) or "lost" (the connection broke).
Outcomes(cn) == IF cn.alive THEN {"ok", "error", "lost"} ELSE {"lost"}

\* BEGIN and ROLLBACK cannot fail on a live session: they fail only with the
\* connection.
ControlOutcomes(cn) == IF cn.alive THEN {"ok", "lost"} ELSE {"lost"}

\* BEGIN: opens a transaction; inside an open one it is a warning and no-op.
BeginEffect(cn, r, o) ==
  IF o = "ok"
    THEN IF cn.inTxn THEN cn ELSE [cn EXCEPT !.inTxn = TRUE, !.owner = r]
    ELSE Lost(cn)

\* The third argument of set_config in withDbUserContext.
IsLocalSession == FALSE

IsLocal == TRUE

\* SELECT set_config(name, value, is_local)
SetConfigEffect(cn, name, value, o) ==
  LET seen == IF name = "sis" THEN [cn EXCEPT !.scopes = @ \cup {value}] ELSE cn
  IN CASE o = "ok" ->
            IF IsLocal
              THEN IF cn.inTxn THEN [seen EXCEPT !.loc[name] = value] ELSE seen
              ELSE [seen EXCEPT !.sess[name] = value]
       [] o = "error" -> cn
       [] OTHER -> Lost(cn)

\* Any other query leaves the settings alone.
QueryEffect(cn, o) == IF o = "lost" THEN Lost(cn) ELSE cn

\* COMMIT ends the transaction whether it succeeds or the server rejects it.
CommitEffect(cn, o) == IF o = "lost" THEN Lost(cn) ELSE EndTxn(cn)

RollbackEffect(cn, o) == IF o = "lost" THEN Lost(cn) ELSE EndTxn(cn)

\* client.release(): the pool keeps a live client and removes a broken one.
ReleaseEffect(cn) ==
  IF cn.alive THEN [cn EXCEPT !.st = "idle"] ELSE FreshConn

\* The accounts requireAuth can return to a report request: ids with
\* surrounding whitespace, the empty id and a null id among them.
ReportUsers ==
  [sis_user_id : {<<"1">>, <<"2">>, <<"1", " ">>, <<>>, Null}, is_admin : BOOLEAN]

\* ------------------------------------------------------------ route handlers
\* How a handler reaches the database: withSecureReport ("secure"),
\* withAuthedDb ("authed") or pool.query ("pool").
Routes ==
  {"yearly-graduates", "yearly-graduates-authed", "instructor-metrics",
   "course-readiness", "public-table-relationships", "exit-report", "years"}

\* The handlers under app/api/reports/.
ReportRoutes ==
  {"yearly-graduates", "yearly-graduates-authed", "instructor-metrics",
   "course-readiness", "public-table-relationships"}

Wrapper(k) ==
  CASE k \in {"yearly-graduates", "instructor-metrics", "course-readiness",
              "public-table-relationships"} -> "secure"
    [] k = "exit-report" -> "pool"
    [] OTHER -> "authed"

\* Whether the callback asserts the scope before its queries: withSecureReport
\* does, and so does the route-local assertAuthedContext of the withAuthedDb
\* version of yearly-graduates.
Asserts(k) == Wrapper(k) = "secure" \/ k = "yearly-graduates-authed"

\* A branch of a handler: whether it queries rows (fetch), whether the payload's
\* `data` holds the fetched rows (data), whether those rows went through
\* anonymizeRows (mask), whether it throws HttpError 400 instead (throws).
Branch(name, fetch, data, mask, throws) ==
  [name |-> name, fetch |-> fetch, data |-> data, mask |-> mask, throws |-> throws]

Branches(k) ==
  CASE k = "yearly-graduates" ->
         { Branch("summary", TRUE, TRUE, FALSE, FALSE),
           Branch("meta", TRUE, FALSE, FALSE, FALSE),
           Branch("meta_rows", TRUE, TRUE, TRUE, FALSE),
           Branch("rows", TRUE, TRUE, TRUE, FALSE),
           Branch("missing", FALSE, FALSE, FALSE, TRUE) }
    [] k = "yearly-graduates-authed" ->
         { Branch("summary", TRUE, TRUE, FALSE, FALSE),
           Branch("meta", TRUE, FALSE, FALSE, FALSE),
           Branch("meta_rows", TRUE, TRUE, FALSE, FALSE),
           Branch("rows", TRUE, TRUE, FALSE, FALSE),
           Branch("missing", FALSE, FALSE, FALSE, TRUE) }
    [] k = "instructor-metrics" ->
         { Branch("meta", TRUE, FALSE, FALSE, FALSE),
           Branch("meta_rows", TRUE, TRUE, TRUE, FALSE),
           Branch("rows", TRUE, TRUE, TRUE, FALSE) }
    [] k = "course-readiness" ->
         { Branch("meta", TRUE, FALSE, TRUE, FALSE),
           Branch("meta_rows", TRUE, TRUE, TRUE, FALSE),
           Branch("rows", TRUE, TRUE, TRUE, FALSE) }
    [] k = "public-table-relationships" ->
         { Branch("norows", TRUE, FALSE, FALSE, FALSE),
           Branch("rows", TRUE, TRUE, FALSE, FALSE) }
    [] k = "exit-report" -> { Branch("summary", TRUE, TRUE, FALSE, FALSE) }
    [] k = "years" -> { Branch("rows", TRUE, TRUE, FALSE, FALSE) }
    [] OTHER -> {}

NoBranch == Branch("none", FALSE, FALSE, FALSE, FALSE)

\* The values the `anonymize` query parameter takes here (null: absent).
AnonParams == {Null, <<"1">>, <<"0">>}

\* parseBool: value === "1" || value === "true"
ParseBoolTruthy(v) == v # Null /\ v # <<>>

ParseBool(v) == v = <<"1">> \/ v = <<"t", "r", "u", "e">>

\* ------------------------------------------------------ the scope assertion
\* assertAuthedDbContext, after the read-back: the message of the HttpError 500
\* it throws, or "none".
AssertErrorNoAdmin(sis, admin, u) ==
  LET appSisUserId == Trim(JsString(OrEmpty(sis)))
  IN IF appSisUserId = <<>> THEN "RLS context missing"
     ELSE IF appSisUserId # JsString(u.sis_user_id) THEN "app.sis_user_id does not match"
     ELSE "none"

AssertErrorAdminIsOne(sis, admin, u) ==
  LET appSisUserId == Trim(JsString(OrEmpty(sis)))
      appIsAdmin == Trim(JsString(OrEmpty(admin))) = <<"1">>
  IN IF appSisUserId = <<>> THEN "RLS context missing"
     ELSE IF appSisUserId # JsString(u.sis_user_id) THEN "app.sis_user_id does not match"
     ELSE IF appIsAdmin # u.is_admin THEN "app.is_admin does not match"
     ELSE "none"

AssertError(sis, admin, u) ==
  LET appSisUserId == Trim(JsString(OrEmpty(sis)))
      appIsAdmin == Trim(JsString(OrEmpty(admin))) = <<"t", "r", "u", "e">>
  IN IF appSisUserId = <<>> THEN "RLS context missing"
     ELSE IF appSisUserId # JsString(u.sis_user_id) THEN "app.sis_user_id does not match"
     ELSE IF appIsAdmin # u.is_admin THEN "app.is_admin does not match"
     ELSE "none"

\* What the store answers to the read-back of a setting: the connection's
\* current_setting, or, from a store or proxy that did not keep the scope,
\* any of these.
StraySis == {Null, <<>>, <<"1">>, <<"2">>, <<"1", " ">>}
StrayAdmin == {Null, BoolText(TRUE), BoolText(FALSE), BoolText(TRUE) \o <<" ">>}

ReadBacks(cn) ==
  [sis : {CurrentSetting(cn, "sis")} \cup StraySis,
   admin : {CurrentSetting(cn, "admin")} \cup StrayAdmin]

\* ------------------------------------------------------------------- state
VARIABLES
  pc,         \* where each request is
  kind,       \* what each request runs: "none", "authed" or a route
  user,       \* the AuthUser requireAuth returned
  conn,       \* the client the request holds (0: none)
  thrown,     \* the first error caught by withDbUserContext ("none")
  rejection,  \* the error the promise rejects with ("none")
  value,      \* what the callback returned ("none")
  log,        \* the statements the request issued on its client, in order
  conns,      \* the pool's connections
  path,       \* the branch of the route handler the request's parameters select
  anon,       \* the request's `anonymize` query parameter
  check,      \* the arguments of the scope assertion: the row read back, the user
  piiLoaded,  \* getPiiColumnsForReport has run
  reads,      \* the row queries the handler issued, and under what protection
  step,       \* masking: "start", "loaded", "fetched", "done"
  rows,       \* anonymizeRowsWithRules: its rows argument
  piiColumns, \* its rule list
  enabled,    \* its enabled flag
  output,     \* what it returned (<<>> before the call)
  query,      \* the request a report handler received and the queries it built
  reports,    \* meta.reports: is_active of each report
  deps,       \* meta.report_dependencies, in dependency_id order
  joins,      \* meta.report_dependency_joins, in join_id order
  fields,     \* meta.report_dependency_fields, in field_id order
  bindings,   \* meta.report_dependency_filter_bindings, in binding_id order
  grouping,   \* meta.report_dependency_grouping, in grouping_id order
  sorting,    \* meta.report_dependency_sorting, in sorting_id order
  result,     \* how the last statement on the metadata store ended
  auth,       \* requireAuth: where each call is, what it read and how it ended
  user_login, \* auth.user_login, in insertion order
  page,       \* useReportPageData: the hook's state and its fetches in flight
  rec         \* POST /api/reports/recommend: the request and its answer

wvars == <<pc, kind, user, conn, thrown, rejection, value, log, conns>>
rvars == <<path, anon, check, piiLoaded, reads>>
avars == <<step, rows, piiColumns, enabled, output>>
qvars == <<query>>
svars == <<reports, deps, joins, fields, bindings, grouping, sorting, result>>
xvars == <<auth, user_login, page, rec>>
ovars == <<qvars, svars, xvars>>
vars == <<wvars, rvars, avars, ovars>>

Stmt(op, o) == [op |-> op, ok |-> (o = "ok")]

\* What a callback returns: the payload, whether its `data` holds fetched rows
\* and whether those went through anonymizeRows.
NoValue == [set |-> FALSE, data |-> FALSE, masked |-> FALSE]
Payload(data, masked) == [set |-> TRUE, data |-> data, masked |-> masked]

NoCheck == [done |-> FALSE, sis |-> Null, admin |-> Null, user |-> NoUser]

\* ------------------------------------------- the order of withDbUserContext
\* try { BEGIN; set_config sis; set_config admin; fn; COMMIT; return }
NextStageNoAdmin(stage) ==
  CASE stage = "begin" -> "set_sis"
    [] stage = "set_sis" -> "fn"
    [] stage = "set_admin" -> "fn"
    [] stage = "fn" -> "commit"
    [] OTHER -> "release"

NextStage(stage) ==
  CASE stage = "begin" -> "set_sis"
    [] stage = "set_sis" -> "set_admin"
    [] stage = "set_admin" -> "fn"
    [] stage = "fn" -> "commit"
    [] OTHER -> "release"

\* catch (e) { ROLLBACK; throw e } finally { release }: release runs whether
\* ROLLBACK succeeded or threw.
AfterRollbackNoFinally(ok) == IF ok THEN "release" ELSE "rejected"

AfterRollback(ok) == "release"

\* -------------------------------------------------------------------- Init
InitReport ==
  /\ path = [r \in Requests |-> NoBranch]
  /\ anon = [r \in Requests |-> Null]
  /\ check = [r \in Requests |-> NoCheck]
  /\ piiLoaded = [r \in Requests |-> FALSE]
  /\ reads = [r \in Requests |-> {}]

InitAnon ==
  /\ step = "start"
  /\ rows = <<>>
  /\ piiColumns = <<>>
  /\ enabled = FALSE
  /\ output = <<>>

InitQuery == query = [stage |-> "start"]

InitStore ==
  /\ reports = [r \in {} |-> FALSE]
  /\ deps = <<>>
  /\ joins = <<>>
  /\ fields = <<>>
  /\ bindings = <<>>
  /\ grouping = <<>>
  /\ sorting = <<>>
  /\ result = [op |-> "none"]

\* No requireAuth call has started; auth.user_login is empty.
InitAuth ==
  /\ auth = [r \in Requests |-> [pc |-> "start"]]
  /\ user_login = <<>>

\* The hook before its first render.
InitPage == page = [stage |-> "unmounted"]

InitRecommend == rec = [stage |-> "start"]

InitRest ==
  /\ InitQuery
  /\ InitStore
  /\ InitAuth
  /\ InitPage
  /\ InitRecommend
  /\ user = [r \in Requests |-> NoUser]
  /\ conn = [r \in Requests |-> 0]
  /\ thrown = [r \in Requests |-> "none"]
  /\ rejection = [r \in Requests |-> "none"]
  /\ value = [r \in Requests |-> NoValue]
  /\ log = [r \in Requests |-> <<>>]
  /\ conns = [c \in Conns |-> FreshConn]
  /\ InitReport
  /\ InitAnon

\* Every request has arrived at a handler that calls withAuthedDb(fn).
Init ==
  /\ pc = [r \in Requests |-> "requireAuth"]
  /\ kind = [r \in Requests |-> "authed"]
  /\ InitRest


\* ------------------------------------------------------------ withAuthedDb
\* const user = await requireAuth(): a provisioned user, or HttpError 401/403,
\* which withAuthedDb lets through before any connection is taken.
RequireAuth(r, users) ==
  /\ pc[r] = "requireAuth"
  /\ \/ \E u \in users :
          /\ user' = [user EXCEPT ![r] = u]
          /\ pc' = [pc EXCEPT ![r] = IF Wrapper(kind[r]) = "pool" THEN "pool_query" ELSE "connect"]
          /\ UNCHANGED rejection
     \/ \E e \in {"HttpError401", "HttpError403"} :
          /\ rejection' = [rejection EXCEPT ![r] = e]
          /\ pc' = [pc EXCEPT ![r] = "rejected"]
          /\ UNCHANGED user
  /\ UNCHANGED <<kind, conn, thrown, value, log, conns>>
  /\ UNCHANGED <<rvars, avars, ovars>>

\* ------------------------------------------------------- withDbUserContext
\* const client = await pool.connect(): an idle client, else a new connection
\* when the pool has room (which may fail), else the request waits.  Empty
\* slots are alike, so a new connection takes the first.
Connect(r) ==
  /\ pc[r] = "connect"
  /\ \/ \E c \in Conns :
          /\ conns[c].st = "idle"
          /\ conns' = [conns EXCEPT ![c].st = "busy"]
          /\ conn' = [conn EXCEPT ![r] = c]
          /\ log' = [log EXCEPT ![r] = Append(@, Stmt("CONNECT", "ok"))]
          /\ pc' = [pc EXCEPT ![r] = "begin"]
          /\ UNCHANGED rejection
     \/ \E c \in Conns :
          /\ \A d \in Conns : conns[d].st # "idle"
          /\ conns[c].st = "absent"
          /\ \A d \in Conns : conns[d].st = "absent" => c <= d
          /\ conns' = [conns EXCEPT ![c] = [FreshConn EXCEPT !.st = "busy"]]
          /\ conn' = [conn EXCEPT ![r] = c]
          /\ log' = [log EXCEPT ![r] = Append(@, Stmt("CONNECT", "ok"))]
          /\ pc' = [pc EXCEPT ![r] = "begin"]
          /\ UNCHANGED rejection
     \/ /\ \A d \in Conns : conns[d].st # "idle"
        /\ \E c \in Conns : conns[c].st = "absent"
        /\ rejection' = [rejection EXCEPT ![r] = "E_CONNECT"]
        /\ pc' = [pc EXCEPT ![r] = "rejected"]
        /\ UNCHANGED <<conn, log, conns>>
  /\ UNCHANGED <<kind, user, thrown, value>>
  /\ UNCHANGED <<rvars, avars, ovars>>

\* One awaited statement of the try block: on success the next stage, on
\* failure the catch block with the error.
TryStep(r, op, err, o, cn) ==
  /\ log' = [log EXCEPT ![r] = Append(@, Stmt(op, o))]
  /\ conns' = [conns EXCEPT ![conn[r]] = cn]
  /\ IF o = "ok"
       THEN /\ pc' = [pc EXCEPT ![r] = NextStage(pc[r])]
            /\ UNCHANGED thrown
       ELSE /\ pc' = [pc EXCEPT ![r] = "rollback"]
            /\ thrown' = [thrown EXCEPT ![r] = err]

\* await client.query("BEGIN")
Begin(r) ==
  /\ pc[r] = "begin"
  /\ \E o \in ControlOutcomes(conns[conn[r]]) :
       TryStep(r, "BEGIN", "E_BEGIN", o, BeginEffect(conns[conn[r]], r, o))
  /\ UNCHANGED <<kind, user, conn, rejection, value>>
  /\ UNCHANGED <<rvars, avars, ovars>>

\* await client.query(`SELECT set_config('app.sis_user_id', $1, true)`, [sis ?? ""])
SetSis(r) ==
  /\ pc[r] = "set_sis"
  /\ \E o \in Outcomes(conns[conn[r]]) :
       TryStep(r, "SET_SIS", "E_SET_SIS", o,
               SetConfigEffect(conns[conn[r]], "sis", OrEmpty(user[r].sis_user_id), o))
  /\ UNCHANGED <<kind, user, conn, rejection, value>>
  /\ UNCHANGED <<rvars, avars, ovars>>

\* await client.query(`SELECT set_config('app.is_admin', $1, true)`, [...])
SetAdmin(r) ==
  /\ pc[r] = "set_admin"
  /\ \E o \in Outcomes(conns[conn[r]]) :
       TryStep(r, "SET_ADMIN", "E_SET_ADMIN", o,
               SetConfigEffect(conns[conn[r]], "admin", BoolText(user[r].is_admin), o))
  /\ UNCHANGED <<kind, user, conn, rejection, value>>
  /\ UNCHANGED <<rvars, avars, ovars>>

NumQueries(r) == Cardinality({i \in 1..Len(log[r]) : log[r][i].op = "QUERY"})

\* The callback awaits db.query(...): a failed query rejects the callback.
FnQuery(r) ==
  /\ pc[r] = "fn"
  /\ kind[r] = "authed"
  /\ NumQueries(r) < MaxQueries
  /\ \E o \in Outcomes(conns[conn[r]]) :
       /\ log' = [log EXCEPT ![r] = Append(@, Stmt("QUERY", o))]
       /\ conns' = [conns EXCEPT ![conn[r]] = QueryEffect(@, o)]
       /\ IF o = "ok"
            THEN UNCHANGED <<pc, thrown>>
            ELSE /\ pc' = [pc EXCEPT ![r] = "rollback"]
                 /\ thrown' = [thrown EXCEPT ![r] = "E_QUERY"]
  /\ UNCHANGED <<kind, user, conn, rejection, value>>
  /\ UNCHANGED <<rvars, avars, ovars>>

\* The callback returns its rows.
FnReturn(r) ==
  /\ pc[r] = "fn"
  /\ kind[r] = "authed"
  /\ value' = [value EXCEPT ![r] = Payload(TRUE, FALSE)]
  /\ pc' = [pc EXCEPT ![r] = NextStage("fn")]
  /\ UNCHANGED <<kind, user, conn, thrown, rejection, log, conns>>
  /\ UNCHANGED <<rvars, avars, ovars>>

\* The callback throws on its own (an HttpError 400 for a missing parameter).
FnThrow(r) ==
  /\ pc[r] = "fn"
  /\ kind[r] = "authed"
  /\ thrown' = [thrown EXCEPT ![r] = "HttpError400"]
  /\ pc' = [pc EXCEPT ![r] = "rollback"]
  /\ UNCHANGED <<kind, user, conn, rejection, value, log, conns>>
  /\ UNCHANGED <<rvars, avars, ovars>>

\* await client.query("COMMIT"); return result
Commit(r) ==
  /\ pc[r] = "commit"
  /\ \E o \in Outcomes(conns[conn[r]]) :
       TryStep(r, "COMMIT", "E_COMMIT", o, CommitEffect(conns[conn[r]], o))
  /\ UNCHANGED <<kind, user, conn, rejection, value>>
  /\ UNCHANGED <<rvars, avars, ovars>>

\* catch (e) { await client.query("ROLLBACK"); throw e }: when ROLLBACK
\* itself throws, its error leaves the catch block instead of e.
Rollback(r) ==
  /\ pc[r] = "rollback"
  /\ \E o \in ControlOutcomes(conns[conn[r]]) :
       /\ log' = [log EXCEPT ![r] = Append(@, Stmt("ROLLBACK", o))]
       /\ conns' = [conns EXCEPT ![conn[r]] = RollbackEffect(@, o)]
       /\ rejection' = [rejection EXCEPT ![r] = IF o = "ok" THEN thrown[r] ELSE "E_ROLLBACK"]
       /\ pc' = [pc EXCEPT ![r] = AfterRollback(o = "ok")]
  /\ UNCHANGED <<kind, user, conn, thrown, value>>
  /\ UNCHANGED <<rvars, avars, ovars>>

\* finally { client.release() }, then the promise settles.
Release(r) ==
  /\ pc[r] = "release"
  /\ log' = [log EXCEPT ![r] = Append(@, Stmt("RELEASE", "ok"))]
  /\ conns' = [conns EXCEPT ![conn[r]] = ReleaseEffect(@)]
  /\ conn' = [conn EXCEPT ![r] = 0]
  /\ user' = [user EXCEPT ![r] = NoUser]
  /\ pc' = [pc EXCEPT ![r] = IF rejection[r] = "none" THEN "resolved" ELSE "rejected"]
  /\ UNCHANGED <<kind, thrown, rejection, value>>
  /\ UNCHANGED <<rvars, avars, ovars>>

\* -------------------------------------------------------------------- Spec
Next ==
  \E r \in Requests :
    \/ RequireAuth(r, SessionUsers(r))
    \/ Connect(r)
    \/ Begin(r)
    \/ SetSis(r)
    \/ SetAdmin(r)
    \/ FnQuery(r)
    \/ FnReturn(r)
    \/ FnThrow(r)
    \/ Commit(r)
    \/ Rollback(r)
    \/ Release(r)

Spec == Init /\ [][Next]_vars

\* -------------------------------------------------------- a report request
InitRoutes ==
  /\ pc = [r \in Requests |-> "idle"]
  /\ kind = [r \in Requests |-> "none"]
  /\ InitRest

\* GET(request): the route and the query parameters select a handler branch.
HandlerStart(r) ==
  /\ pc[r] = "idle"
  /\ \E k \in Routes : \E b \in Branches(k) : \E a \in AnonParams :
       /\ kind' = [kind EXCEPT ![r] = k]
       /\ path' = [path EXCEPT ![r] = b]
       /\ anon' = [anon EXCEPT ![r] = a]
  /\ pc' = [pc EXCEPT ![r] = "requireAuth"]
  /\ UNCHANGED <<user, conn, thrown, rejection, value, log, conns, check, piiLoaded, reads, avars, ovars>>

\* A query of the callback failed, or the callback threw: withDbUserContext's
\* catch block is next.
Caught(r, e) ==
  /\ thrown' = [thrown EXCEPT ![r] = e]
  /\ pc' = [pc EXCEPT ![r] = "rollback"]

\* await assertAuthedDbContext(db, user): the read-back query, then the three
\* comparisons; withSecureReport goes on to the PII rules, the route-local copy
\* to the handler's queries.
AssertScope(r) ==
  /\ pc[r] = "fn"
  /\ kind[r] \in Routes /\ Asserts(kind[r])
  /\ \E o \in Outcomes(conns[conn[r]]) :
       /\ log' = [log EXCEPT ![r] = Append(@, Stmt("QUERY", o))]
       /\ conns' = [conns EXCEPT ![conn[r]] = QueryEffect(@, o)]
       /\ IF o = "ok"
            THEN \E rb \in ReadBacks(conns[conn[r]]) :
                   /\ check' = [check EXCEPT ![r] =
                        [done |-> TRUE, sis |-> rb.sis, admin |-> rb.admin, user |-> user[r]]]
                   /\ IF AssertError(rb.sis, rb.admin, user[r]) = "none"
                        THEN /\ pc' = [pc EXCEPT ![r] =
                                  IF Wrapper(kind[r]) = "secure" THEN "pii" ELSE "handler"]
                             /\ UNCHANGED thrown
                        ELSE Caught(r, "HttpError500")
            ELSE /\ Caught(r, "E_QUERY")
                 /\ UNCHANGED check
  /\ UNCHANGED <<kind, user, conn, rejection, value, path, anon, piiLoaded, reads, avars, ovars>>

\* const piiColumns = await getPiiColumnsForReport(db, reportRoute)
LoadPii(r) ==
  /\ pc[r] = "pii"
  /\ \E o \in Outcomes(conns[conn[r]]) :
       /\ log' = [log EXCEPT ![r] = Append(@, Stmt("QUERY", o))]
       /\ conns' = [conns EXCEPT ![conn[r]] = QueryEffect(@, o)]
       /\ IF o = "ok"
            THEN /\ piiLoaded' = [piiLoaded EXCEPT ![r] = TRUE]
                 /\ pc' = [pc EXCEPT ![r] = "handler"]
                 /\ UNCHANGED thrown
            ELSE /\ Caught(r, "E_QUERY")
                 /\ UNCHANGED piiLoaded
  /\ UNCHANGED <<kind, user, conn, rejection, value, path, anon, check, reads, avars, ovars>>

\* The handler's own code starts: after withSecureReport's preamble, after the
\* route-local assertion, or at once in a withAuthedDb callback without one.
AtHandler(r) ==
  \/ pc[r] = "handler"
  \/ pc[r] = "fn" /\ kind[r] \in Routes /\ ~Asserts(kind[r])

\* How a row query was protected: the wrapper it ran in, whether the scope
\* assertion had passed on its connection, and the scope it ran under.
Read(r, cn) ==
  [via |-> Wrapper(kind[r]),
   asserted |-> check[r].done /\ AssertError(check[r].sis, check[r].admin, check[r].user) = "none",
   sis |-> CurrentSetting(cn, "sis")]

\* The handler awaits its row queries (getYears, getPrograms, getRows, ...).
HandlerFetch(r) ==
  /\ AtHandler(r)
  /\ path[r].fetch
  /\ \E o \in Outcomes(conns[conn[r]]) :
       /\ log' = [log EXCEPT ![r] = Append(@, Stmt("QUERY", o))]
       /\ conns' = [conns EXCEPT ![conn[r]] = QueryEffect(@, o)]
       /\ reads' = [reads EXCEPT ![r] = @ \cup {Read(r, conns[conn[r]])}]
       /\ IF o = "ok"
            THEN /\ pc' = [pc EXCEPT ![r] = "fetched"]
                 /\ UNCHANGED thrown
            ELSE Caught(r, "E_QUERY")
  /\ UNCHANGED <<kind, user, conn, rejection, value, path, anon, check, piiLoaded, avars, ovars>>

\* The handler returns its payload; the branch decides whether `data` holds
\* the rows and whether they were passed through anonymizeRows.
HandlerReturn(r) ==
  /\ pc[r] = "fetched"
  /\ value' = [value EXCEPT ![r] = Payload(path[r].data, path[r].mask)]
  /\ pc' = [pc EXCEPT ![r] = NextStage("fn")]
  /\ UNCHANGED <<kind, user, conn, thrown, rejection, log, conns, rvars, avars, ovars>>

\* throw new HttpError(400, "Missing required query parameters ...")
HandlerThrow(r) ==
  /\ AtHandler(r)
  /\ path[r].throws
  /\ Caught(r, "HttpError400")
  /\ UNCHANGED <<kind, user, conn, rejection, value, log, conns, rvars, avars, ovars>>

\* await pool.query(...): the pool lends a client for the one query, outside
\* any transaction and with no scope set, and takes it back.
PoolQuery(r) ==
  /\ pc[r] = "pool_query"
  /\ \E c \in Conns :
       /\ \/ conns[c].st = "idle"
          \/ /\ conns[c].st = "absent"
             /\ \A d \in Conns : conns[d].st # "idle" /\ (conns[d].st = "absent" => c <= d)
       /\ LET cn == IF conns[c].st = "idle" THEN conns[c] ELSE FreshConn
          IN \E o \in Outcomes(cn) :
               /\ conns' = [conns EXCEPT ![c] = ReleaseEffect(QueryEffect(cn, o))]
               /\ reads' = [reads EXCEPT ![r] = @ \cup {Read(r, cn)}]
               /\ IF o = "ok"
                    THEN /\ value' = [value EXCEPT ![r] = Payload(path[r].data, path[r].mask)]
                         /\ pc' = [pc EXCEPT ![r] = "resolved"]
                         /\ UNCHANGED rejection
                    ELSE /\ rejection' = [rejection EXCEPT ![r] = "E_QUERY"]
                         /\ pc' = [pc EXCEPT ![r] = "rejected"]
                         /\ UNCHANGED value
  /\ UNCHANGED <<kind, user, conn, thrown, log, path, anon, check, piiLoaded, avars, ovars>>

NextRoutes ==
  \E r \in {1} :
    \/ HandlerStart(r)
    \/ RequireAuth(r, ReportUsers)
    \/ Connect(r)
    \/ Begin(r)
    \/ SetSis(r)
    \/ SetAdmin(r)
    \/ AssertScope(r)
    \/ LoadPii(r)
    \/ HandlerFetch(r)
    \/ HandlerReturn(r)
    \/ HandlerThrow(r)
    \/ PoolQuery(r)
    \/ Commit(r)
    \/ Rollback(r)
    \/ Release(r)

SpecRoutes == InitRoutes /\ [][NextRoutes]_vars

\* ----------------------------------------------------- dynamically built SQL
\* A query text is a sequence of pieces: the constant parts of the template
\* literal, and the interpolated parts.  A request value is a sequence of
\* characters, so a value interpolated into a text contributes its characters.

\* String(params.length)
DecimalDigits == <<"1", "2", "3", "4", "5", "6", "7", "8", "9">>
Decimal(n) == DecimalDigits[n]

\* if (value): a string is truthy unless it is empty; null is not.
Truthy(v) == v # Null /\ v # <<>>

cleanFilterUntrimmed(v) ==
  IF v = Null \/ v = <<>> THEN Null ELSE v

\* cleanFilter
cleanFilter(v) ==
  LET cleaned == Trim(JsString(OrEmpty(v)))
  IN IF Len(cleaned) > 0 THEN cleaned ELSE Null

\* String(url.searchParams.get(key) ?? "").trim() || null
TrimOrNull(v) ==
  LET t == Trim(JsString(OrEmpty(v)))
  IN IF Truthy(t) THEN t ELSE Null

\* clauses.join(sep)
RECURSIVE JoinClauses(_, _)
JoinClauses(clauses, sep) ==
  IF clauses = <<>> THEN <<>>
  ELSE IF Len(clauses) = 1 THEN Head(clauses)
  ELSE Head(clauses) \o <<sep>> \o JoinClauses(Tail(clauses), sep)

\* clauses.length > 0 ? `WHERE ${clauses.join(" AND ")}` : ""
WhereClause(clauses) ==
  IF Len(clauses) > 0 THEN <<"WHERE ">> \o JoinClauses(clauses, " AND ") ELSE <<>>

NoFilters == [params |-> <<>>, clauses |-> <<>>]

\* if (value) { params.push(value); clauses.push(`${column} = $${params.length}`) }
PushFilterInline(acc, v, column) ==
  IF Truthy(v)
    THEN [params |-> Append(acc.params, v),
          clauses |-> Append(acc.clauses, <<column, " = ", "'">> \o v \o <<"'">>)]
    ELSE acc

PushFilter(acc, v, column) ==
  IF Truthy(v)
    THEN [params |-> Append(acc.params, v),
          clauses |-> Append(acc.clauses, <<column, " = ", "$", Decimal(Len(acc.params) + 1)>>)]
    ELSE acc

\* A filter argument of a query builder: the column it restricts and the value
\* the builder was called with.
Arg(column, v) == [column |-> column, value |-> v]

\* A call db.query(text, params) of a builder: `frags` are the expressions
\* interpolated into the text besides the WHERE clause, `args` the builder's
\* optional filter arguments, `fixed` its required ones.
Query(fn, text, params, frags, args, fixed) ==
  [fn |-> fn, text |-> text, params |-> params, frags |-> frags, args |-> args,
   fixed |-> fixed]

\* A query whose text is one constant string.
Static(fn, text) == Query(fn, <<text>>, <<>>, <<>>, <<>>, <<>>)

\* years[0] ?? null
First(list) == IF list = <<>> THEN Null ELSE list[1]

\* list.includes(v)
Includes(list, v) == \E i \in 1..Len(list) : list[i] = v

\* requested && options.includes(requested) ? requested : fallback
SelectedUnlisted(requested, options, fallback) ==
  IF Truthy(requested) THEN requested ELSE fallback

Selected(requested, options, fallback) ==
  IF Truthy(requested) /\ Includes(options, requested) THEN requested ELSE fallback

\* --- course-readiness
CourseReadiness_getYears ==
  Static("getYears",
         "SELECT DISTINCT academic_year FROM public.canvas_course_readiness ORDER BY academic_year DESC")

CourseReadiness_getPrograms(academicYear) ==
  LET f == PushFilter(NoFilters, academicYear, "ccr.academic_year")
  IN Query("getPrograms",
           <<"SELECT DISTINCT ccr.program_code, p.program_name FROM public.canvas_course_readiness ccr INNER JOIN public.programs p ON p.program_code = ccr.program_code AND p.academic_year = ccr.academic_year ">>
             \o WhereClause(f.clauses)
             \o <<" ORDER BY program_name, ccr.program_code">>,
           f.params, <<>>,
           <<Arg("ccr.academic_year", academicYear)>>, <<>>)

getCourseTypes(academicYear, programCode) ==
  LET f1 == PushFilter(NoFilters, academicYear, "ccr.academic_year")
      f == PushFilter(f1, programCode, "ccr.program_code")
  IN Query("getCourseTypes",
           <<"SELECT DISTINCT ccr.course_type FROM public.canvas_course_readiness ccr ">>
             \o WhereClause(f.clauses)
             \o <<" ORDER BY ccr.course_type">>,
           f.params, <<>>,
           <<Arg("ccr.academic_year", academicYear), Arg("ccr.program_code", programCode)>>,
           <<>>)

CourseNameProbe ==
  Static("resolveCourseNameExpression",
         "SELECT column_name FROM information_schema.columns WHERE table_schema = 'public' AND table_name = 'courses' AND column_name IN ('course_name', 'course_title', 'name')")

\* resolveCourseNameExpression, on the column names the probe returned
resolveCourseNameExpression(available) ==
  IF "course_name" \in available THEN "c.course_name"
  ELSE IF "course_title" \in available THEN "c.course_title"
  ELSE IF "name" \in available THEN "c.name"
  ELSE "NULL::text"

CourseReadiness_getRows(academicYear, programCode, courseType, available) ==
  LET f1 == PushFilter(NoFilters, academicYear, "ccr.academic_year")
      f2 == PushFilter(f1, programCode, "ccr.program_code")
      f == PushFilter(f2, courseType, "ccr.course_type")
      courseNameExpression == resolveCourseNameExpression(available)
  IN Query("getRows",
           <<"SELECT ccr.canvas_course_id, ccr.course_code, COALESCE(",
             courseNameExpression,
             ", ccr.course_code) AS course_name, ccr.program_code, p.program_name, ccr.academic_year, ccr.creation_source, ccr.course_type, ccr.course_status, ccr.syllabus_status, ccr.course_evaluation_status, ccr.instructor_evaluation_status, ccr.employment_skills_evaluation_status, ccr.canvas_content_status, ccr.total_group_weights FROM public.canvas_course_readiness ccr LEFT JOIN public.courses c ON c.course_code = ccr.course_code AND c.academic_year = ccr.academic_year INNER JOIN public.programs p ON p.program_code = ccr.program_code AND p.academic_year = ccr.academic_year ">>
             \o WhereClause(f.clauses)
             \o <<" ORDER BY ccr.academic_year DESC, ccr.program_code, ccr.course_code">>,
           f.params, <<courseNameExpression>>,
           <<Arg("ccr.academic_year", academicYear), Arg("ccr.program_code", programCode),
             Arg("ccr.course_type", courseType)>>,
           <<>>)

\* GET of the course-readiness route: the queries its handler issues, in order.
CourseReadiness_GET(req, cat) ==
  LET requestedAcademicYear == cleanFilter(req.academic_year)
      requestedProgramCode == cleanFilter(req.program_code)
      requestedCourseType == cleanFilter(req.third)
      includeMeta == ParseBool(req.include_meta)
      includeRows == ParseBool(req.include_rows)
      selectedAcademicYear == Selected(requestedAcademicYear, cat.years, First(cat.years))
      selectedProgramCode == Selected(requestedProgramCode, cat.programs, Null)
      selectedCourseType == Selected(requestedCourseType, cat.thirds, Null)
  IN IF includeMeta
       THEN [status |-> 200,
             queries |->
               <<CourseReadiness_getYears,
                 CourseReadiness_getPrograms(selectedAcademicYear),
                 getCourseTypes(selectedAcademicYear, selectedProgramCode)>>
               \o (IF includeRows
                     THEN <<CourseNameProbe,
                            CourseReadiness_getRows(selectedAcademicYear, selectedProgramCode,
                                                    selectedCourseType, cat.columns)>>
                     ELSE <<>>),
             selected |-> [academic_year |-> selectedAcademicYear,
                           program_code |-> selectedProgramCode,
                           course_type |-> selectedCourseType]]
       ELSE [status |-> 200,
             queries |->
               <<CourseNameProbe,
                 CourseReadiness_getRows(requestedAcademicYear, requestedProgramCode,
                                         requestedCourseType, cat.columns)>>]

\* --- instructor-metrics
InstructorMetrics_getYears ==
  Static("getYears",
         "SELECT DISTINCT academic_year FROM public.instructor_metrics ORDER BY academic_year DESC")

InstructorMetrics_getPrograms(academicYear) ==
  LET f == PushFilter(NoFilters, academicYear, "im.academic_year")
  IN Query("getPrograms",
           <<"SELECT DISTINCT p.program_code, p.program_name FROM public.programs p INNER JOIN public.instructor_metrics im ON im.program_code = p.program_code ">>
             \o WhereClause(f.clauses)
             \o <<" ORDER BY p.program_name, p.program_code">>,
           f.params, <<>>,
           <<Arg("im.academic_year", academicYear)>>, <<>>)

InstructorMetrics_getRows(academicYear, programCode) ==
  LET f1 == PushFilter(NoFilters, academicYear, "im.academic_year")
      f == PushFilter(f1, programCode, "im.program_code")
  IN Query("getRows",
           <<"SELECT im.sis_user_id, u.first_name, u.last_name, im.academic_year, im.program_code, COALESCE(p.program_name, im.program_code) AS program_name, im.assignments_graded, im.average_score, im.days_to_grade, im.perc_graded_with_rubric, im.num_replies_to_students, im.days_to_reply, im.credits_overseen, im.credits_graded FROM public.instructor_metrics im LEFT JOIN public.users u ON u.sis_user_id = im.sis_user_id LEFT JOIN public.programs p ON p.program_code = im.program_code ">>
             \o WhereClause(f.clauses)
             \o <<" ORDER BY im.academic_year DESC, im.program_code, u.last_name NULLS LAST, u.first_name NULLS LAST, im.sis_user_id">>,
           f.params, <<>>,
           <<Arg("im.academic_year", academicYear), Arg("im.program_code", programCode)>>,
           <<>>)

InstructorMetrics_GET(req, cat) ==
  LET requestedAcademicYear == TrimOrNull(req.academic_year)
      requestedProgramCode == TrimOrNull(req.program_code)
      includeMeta == ParseBool(req.include_meta)
      includeRows == ParseBool(req.include_rows)
      selectedAcademicYear == Selected(requestedAcademicYear, cat.years, First(cat.years))
      selectedProgramCode == Selected(requestedProgramCode, cat.programs, First(cat.programs))
  IN IF includeMeta
       THEN [status |-> 200,
             queries |->
               <<InstructorMetrics_getYears,
                 InstructorMetrics_getPrograms(selectedAcademicYear)>>
               \o (IF includeRows
                     THEN <<InstructorMetrics_getRows(selectedAcademicYear, selectedProgramCode)>>
                     ELSE <<>>)]
       ELSE [status |-> 200,
             queries |->
               <<InstructorMetrics_getRows(requestedAcademicYear, requestedProgramCode)>>]

\* --- config (the department view of the instructor metrics)
getDepartments(academicYear) ==
  LET f == PushFilter(NoFilters, academicYear, "im.academic_year")
  IN Query("getDepartments",
           <<"SELECT DISTINCT d.department_code, d.department_name FROM public.departments d INNER JOIN public.instructor_metrics im ON im.department_code = d.department_code ">>
             \o WhereClause(f.clauses)
             \o <<" ORDER BY d.department_name, d.department_code">>,
           f.params, <<>>,
           <<Arg("im.academic_year", academicYear)>>, <<>>)

Config_getRows(academicYear, departmentCode) ==
  LET f1 == PushFilter(NoFilters, academicYear, "im.academic_year")
      f == PushFilter(f1, departmentCode, "im.department_code")
  IN Query("getRows",
           <<"SELECT im.sis_user_id, u.first_name, u.last_name, im.academic_year, im.department_code, COALESCE(d.department_name, im.department_code) AS department_name, im.assignments_graded, im.average_score, im.average_attempts, im.comments_per_submission_graded, im.days_to_grade, im.perc_graded_with_rubric, im.num_replies_to_students, im.days_to_reply, im.teacher_support_hours FROM public.instructor_metrics im LEFT JOIN public.users u ON u.sis_user_id = im.sis_user_id LEFT JOIN public.departments d ON d.department_code = im.department_code ">>
             \o WhereClause(f.clauses)
             \o <<" ORDER BY im.academic_year DESC, im.department_code, u.last_name NULLS LAST, u.first_name NULLS LAST, im.sis_user_id">>,
           f.params, <<>>,
           <<Arg("im.academic_year", academicYear), Arg("im.department_code", departmentCode)>>,
           <<>>)

Config_GET(req, cat) ==
  LET requestedAcademicYear == TrimOrNull(req.academic_year)
      requestedDepartmentCode == TrimOrNull(req.program_code)
      includeMeta == ParseBool(req.include_meta)
      includeRows == ParseBool(req.include_rows)
      selectedAcademicYear == Selected(requestedAcademicYear, cat.years, First(cat.years))
      selectedDepartmentCode ==
        Selected(requestedDepartmentCode, cat.programs, First(cat.programs))
  IN IF includeMeta
       THEN [status |-> 200,
             queries |->
               <<InstructorMetrics_getYears, getDepartments(selectedAcademicYear)>>
               \o (IF includeRows
                     THEN <<Config_getRows(selectedAcademicYear, selectedDepartmentCode)>>
                     ELSE <<>>)]
       ELSE [status |-> 200,
             queries |-> <<Config_getRows(requestedAcademicYear, requestedDepartmentCode)>>]

\* --- yearly-graduates
YearlyGraduates_getYears ==
  Static("getYears",
         "SELECT DISTINCT academic_year FROM student_exit_status ORDER BY academic_year DESC")

YearlyGraduates_getPrograms(academicYear) ==
  LET whereClause ==
        IF Truthy(academicYear) THEN <<"WHERE ", "s.academic_year", " = ", "$", "1">> ELSE <<>>
      params == IF Truthy(academicYear) THEN <<academicYear>> ELSE <<>>
  IN Query("getPrograms",
           <<"SELECT DISTINCT s.program_code, COALESCE(p.program_name, s.program_code) AS program_name FROM student_exit_status s LEFT JOIN programs p ON p.program_code = s.program_code ">>
             \o whereClause
             \o <<" ORDER BY program_name NULLS LAST, s.program_code">>,
           params, <<>>,
           <<Arg("s.academic_year", academicYear)>>, <<>>)

\* getCampuses issues no query when it has no program code.
getCampuses(academicYear, programCode) ==
  IF ~Truthy(programCode) THEN <<>>
  ELSE
    LET f0 == [params |-> <<programCode>>,
               clauses |-> << <<"s.program_code", " = ", "$", "1">> >>]
        f == PushFilter(f0, academicYear, "s.academic_year")
    IN <<Query("getCampuses",
               <<"SELECT DISTINCT s.campus FROM student_exit_status s ", "WHERE ">>
                 \o JoinClauses(f.clauses, " AND ")
                 \o <<" ORDER BY s.campus">>,
               f.params, <<>>,
               <<Arg("s.academic_year", academicYear)>>,
               <<Arg("s.program_code", programCode)>>)>>

ChanceToGraduateProbe ==
  Static("columnCheck",
         "SELECT 1 FROM information_schema.columns WHERE table_schema = 'public' AND table_name = 'student_exit_status' AND column_name = 'chance_to_graduate' LIMIT 1")

UsersColumnProbe ==
  Static("usersColumnCheck",
         "SELECT column_name FROM information_schema.columns WHERE table_schema = 'public' AND table_name = 'users' AND column_name IN ('sis_user_id', 'first_name', 'last_name')")

getReportRows(programCode, campus, academicYear, hasChanceToGraduate, userColumns) ==
  LET chanceToGraduateSelect ==
        IF hasChanceToGraduate
          THEN "s.chance_to_graduate::double precision AS chance_to_graduate"
          ELSE "NULL::double precision AS chance_to_graduate"
      canJoinUsers ==
        "sis_user_id" \in userColumns /\ "first_name" \in userColumns
          /\ "last_name" \in userColumns
      userJoin ==
        IF canJoinUsers THEN "LEFT JOIN users u ON u.sis_user_id = s.sis_user_id" ELSE ""
      userNameSelect ==
        IF canJoinUsers THEN " u.first_name, u.last_name, "
        ELSE " NULL::text AS first_name, NULL::text AS last_name, "
  IN Query("getReportRows",
           <<"SELECT s.sis_user_id, ", userNameSelect,
             " s.program_code, COALESCE(p.program_name, s.program_code) AS program_name, s.campus, s.academic_year, s.exit_date, s.days_remaining, s.credits_remaining, s.projected_exit_date, s.is_exited, s.is_graduate, s.is_nongrad_related_completer, s.is_completer, s.academic_year_end, s.buffer_days, s.cutoff_prob, s.late_window_days, s.buffer_start_date, ",
             chanceToGraduateSelect,
             ", s.chance_to_complete::double precision AS chance_to_complete FROM student_exit_status s LEFT JOIN programs p ON p.program_code = s.program_code ",
             userJoin,
             " WHERE ", "s.program_code", " = ", "$", "1",
             " AND ", "s.campus", " = ", "$", "2",
             " AND ", "s.academic_year", " = ", "$", "3",
             " ORDER BY s.exit_date NULLS LAST, s.sis_user_id">>,
           <<programCode, campus, academicYear>>,
           <<userNameSelect, chanceToGraduateSelect, userJoin>>,
           <<>>,
           <<Arg("s.program_code", programCode), Arg("s.campus", campus),
             Arg("s.academic_year", academicYear)>>)

fiscalCutoff == <<"2", "0", "2", "6", "-", "0", "7", "-", "0", "1">>

SummaryQuery ==
  Query("summary",
        <<"SELECT COUNT(*) FILTER (WHERE is_graduate = true) AS graduates, COUNT(*) FILTER (WHERE is_exited = true AND is_graduate = false) AS exited, COUNT(*) FILTER (WHERE is_exited = false AND is_graduate = false AND ",
          "projected_exit_date", " <= ", "$", "1",
          ") AS on_track FROM student_exit_status">>,
        <<fiscalCutoff>>, <<>>, <<>>,
        <<Arg("projected_exit_date", fiscalCutoff)>>)

YearlyGraduates_GET(req, cat) ==
  LET requestedProgramCode == req.program_code
      requestedCampus == req.third
      requestedAcademicYear == req.academic_year
      includeMeta == ParseBool(req.include_meta)
      includeRows == ParseBool(req.include_rows)
      selectedAcademicYear == Selected(requestedAcademicYear, cat.years, First(cat.years))
      selectedProgramCode == Selected(requestedProgramCode, cat.programs, First(cat.programs))
      campusQuery == getCampuses(selectedAcademicYear, selectedProgramCode)
      campuses == IF campusQuery = <<>> THEN <<>> ELSE cat.thirds
      selectedCampus == Selected(requestedCampus, campuses, First(campuses))
      reportRows(programCode, campus, academicYear) ==
        <<ChanceToGraduateProbe, UsersColumnProbe,
          getReportRows(programCode, campus, academicYear, cat.hasChanceToGraduate,
                        cat.userColumns)>>
  IN IF ~includeMeta /\ ~Truthy(requestedProgramCode) /\ ~Truthy(requestedCampus)
          /\ ~Truthy(requestedAcademicYear)
       THEN [status |-> 200, queries |-> <<SummaryQuery>>]
     ELSE IF includeMeta
       THEN [status |-> 200,
             queries |->
               <<YearlyGraduates_getYears, YearlyGraduates_getPrograms(selectedAcademicYear)>>
               \o campusQuery
               \o (IF includeRows /\ Truthy(selectedProgramCode) /\ Truthy(selectedCampus)
                      /\ Truthy(selectedAcademicYear)
                     THEN reportRows(selectedProgramCode, selectedCampus, selectedAcademicYear)
                     ELSE <<>>)]
     ELSE IF ~Truthy(requestedProgramCode) \/ ~Truthy(requestedCampus)
               \/ ~Truthy(requestedAcademicYear)
       THEN [status |-> 400, queries |-> <<>>]
     ELSE [status |-> 200,
           queries |->
             reportRows(requestedProgramCode, requestedCampus, requestedAcademicYear)]

\* --- one request to a report route
QueryRoutes == {"course-readiness", "instructor-metrics", "config", "yearly-graduates"}

\* url.searchParams.get(key): null when the key is absent
ParamValues == {Null, <<>>, <<" ">>, <<"a">>, <<" ", "a">>}
FlagValues == {Null, <<"1">>}

\* The filters a route reads; `third` is course_type or campus, `other` a key
\* the route does not read.
QueryRequests(route) ==
  [academic_year : ParamValues,
   program_code : ParamValues,
   third : IF route \in {"course-readiness", "yearly-graduates"} THEN ParamValues ELSE {Null},
   include_meta : FlagValues,
   include_rows : FlagValues,
   other : IF route \in {"instructor-metrics", "config"} THEN {Null, <<"a">>} ELSE {Null}]

\* What the database holds: the option lists and the columns the probes find.
Options == {<<>>, <<<<"a">>>>}
Catalogs(route) ==
  [years : Options \cup {<<<<" ">>>>, <<<<>>>>, <<<<"b">>, <<"a">>>>},
   programs : Options,
   thirds : IF route \in {"course-readiness", "yearly-graduates"} THEN Options ELSE {<<>>},
   columns : IF route = "course-readiness"
               THEN {{}, {"name"}, {"course_title", "name"},
                     {"course_name", "course_title", "name"}}
               ELSE {{}},
   hasChanceToGraduate : IF route = "yearly-graduates" THEN BOOLEAN ELSE {FALSE},
   userColumns : IF route = "yearly-graduates"
                   THEN {{"sis_user_id"}, {"sis_user_id", "first_name", "last_name"}}
                   ELSE {{}}]

GET(route, req, cat) ==
  IF route = "course-readiness" THEN CourseReadiness_GET(req, cat)
  ELSE IF route = "instructor-metrics" THEN InstructorMetrics_GET(req, cat)
  ELSE IF route = "config" THEN Config_GET(req, cat)
  ELSE YearlyGraduates_GET(req, cat)

ReceiveQuery ==
  /\ query.stage = "start"
  /\ \E route \in QueryRoutes :
       \E req \in QueryRequests(route) :
         \E cat \in Catalogs(route) :
           query' = [stage |-> "request", route |-> route, request |-> req, catalog |-> cat]
  /\ UNCHANGED <<wvars, rvars, avars, svars, xvars>>

Respond(route) ==
  /\ query.stage = "request"
  /\ query.route = route
  /\ LET response == GET(route, query.request, query.catalog)
     IN query' = [stage |-> "done", route |-> route, request |-> query.request,
                  catalog |-> query.catalog, status |-> response.status,
                  queries |-> response.queries,
                  selected |-> IF "selected" \in DOMAIN response
                                 THEN <<response.selected>> ELSE <<>>]
  /\ UNCHANGED <<wvars, rvars, avars, svars, xvars>>

CourseReadinessRoute == Respond("course-readiness")
InstructorMetricsRoute == Respond("instructor-metrics")
ConfigRoute == Respond("config")
YearlyGraduatesRoute == Respond("yearly-graduates")

NextQuery ==
  \/ ReceiveQuery
  \/ CourseReadinessRoute
  \/ InstructorMetricsRoute
  \/ ConfigRoute
  \/ YearlyGraduatesRoute

SpecQuery == InitRoutes /\ [][NextQuery]_vars

\* ------------------------------------------------- the report metadata store
\* meta.reports and the tables of meta_report_dependencies.sql.  A table is
\* the sequence of its rows in insertion order; the position of a source row
\* is its dependency_id (GENERATED ALWAYS AS IDENTITY).  A statement that
\* violates a constraint is rejected and leaves every table as it was.

LowerLetters ==
  {"a", "b", "c", "d", "e", "f", "g", "h", "i", "j", "k", "l", "m", "n", "o", "p", "q",
   "r", "s", "t", "u", "v", "w", "x", "y", "z"}
IdentDigits == {"0", "1", "2", "3", "4", "5", "6", "7", "8", "9"}

\* value ~ '^[a-z][a-z0-9_]*$'
IsIdentifier(v) ==
  /\ Len(v) >= 1
  /\ v[1] \in LowerLetters
  /\ \A i \in 2..Len(v) : v[i] \in LowerLetters \cup IdentDigits \cup {"_"}

\* SQL NULL in a column whose values are modelled as whole strings.
NullText == "<null>"

SourceKinds == {"table", "view", "materialized_view"}
RelationRoles == {"base", "join"}
JoinTypes == {"inner", "left", "right", "full", "cross"}

\* The CHECK constraints of meta.report_dependencies.
SourceChecksNoShape(row) ==
  /\ row.source_kind \in SourceKinds
  /\ row.relation_role \in RelationRoles
  /\ row.join_type = NullText \/ row.join_type \in JoinTypes
  /\ IsIdentifier(row.source_alias)
  /\ IsIdentifier(row.source_schema)
  /\ IsIdentifier(row.source_name)

SourceChecks(row) ==
  /\ row.source_kind \in SourceKinds
  /\ row.relation_role \in RelationRoles
  /\ row.join_type = NullText \/ row.join_type \in JoinTypes
  /\ IsIdentifier(row.source_alias)
  /\ \/ row.relation_role = "base" /\ row.join_type = NullText /\ row.join_to_alias = Null
     \/ row.relation_role = "join" /\ row.join_type # NullText /\ row.join_to_alias # Null
  /\ IsIdentifier(row.source_schema)
  /\ IsIdentifier(row.source_name)

\* report_dependencies_report_alias_uidx, for a row stored at position `at`
\* (0 for a new row).
SourceUniqueNoIndex(table, row, at) == TRUE

SourceUnique(table, row, at) ==
  \A i \in 1..Len(table) :
    i # at =>
      ~(table[i].report_id = row.report_id /\ table[i].source_alias = row.source_alias)

\* REFERENCES meta.reports(id)
ReportExists(row) == row.report_id \in DOMAIN reports

\* The outcome of a statement on a table: the SQLSTATE class it ends with.
Outcome(table, checks, unique, fk) ==
  [op |-> "write", table |-> table,
   state |-> IF ~checks THEN "check_violation"
             ELSE IF ~unique THEN "unique_violation"
             ELSE IF ~fk THEN "foreign_key_violation"
             ELSE "ok"]

Accepts(outcome) == outcome.state = "ok"

\* The place of a deleted source row: dependency_id is an identity column, so
\* the id of a deleted row is not given to another row.
Gap ==
  [report_id |-> NullText, source_alias |-> Null, source_schema |-> Null,
   source_name |-> Null, source_kind |-> NullText, relation_role |-> NullText,
   join_type |-> NullText, join_to_alias |-> Null, is_active |-> FALSE]

\* INSERT INTO meta.reports / UPDATE meta.reports SET is_active
InsertReport(id, active) ==
  /\ id \notin DOMAIN reports
  /\ reports' = [r \in DOMAIN reports \cup {id} |-> IF r = id THEN active ELSE reports[r]]
  /\ result' = [op |-> "write", table |-> "reports", state |-> "ok"]
  /\ UNCHANGED <<wvars, rvars, avars, qvars, xvars, deps, joins, fields, bindings, grouping, sorting>>

UpdateReport(id, active) ==
  /\ id \in DOMAIN reports
  /\ reports' = [reports EXCEPT ![id] = active]
  /\ result' = [op |-> "write", table |-> "reports", state |-> "ok"]
  /\ UNCHANGED <<wvars, rvars, avars, qvars, xvars, deps, joins, fields, bindings, grouping, sorting>>

\* INSERT INTO meta.report_dependencies
InsertSource(row) ==
  /\ Len(deps) < MaxDeps
  /\ LET outcome == Outcome("report_dependencies", SourceChecks(row),
                            SourceUnique(deps, row, 0), ReportExists(row))
     IN /\ result' = outcome
        /\ deps' = IF Accepts(outcome) THEN Append(deps, row) ELSE deps
  /\ UNCHANGED <<wvars, rvars, avars, qvars, xvars, reports, joins, fields, bindings, grouping, sorting>>

\* UPDATE meta.report_dependencies SET ... WHERE dependency_id = i
UpdateSource(i, row) ==
  /\ i \in 1..Len(deps)
  /\ deps[i] # Gap
  /\ LET outcome == Outcome("report_dependencies", SourceChecks(row),
                            SourceUnique(deps, row, i), ReportExists(row))
     IN /\ result' = outcome
        /\ deps' = IF Accepts(outcome) THEN [deps EXCEPT ![i] = row] ELSE deps
  /\ UNCHANGED <<wvars, rvars, avars, qvars, xvars, reports, joins, fields, bindings, grouping, sorting>>

\* UPDATE meta.report_dependencies SET is_active = b WHERE dependency_id = i
SetSourceActive(i, b) ==
  /\ i \in 1..Len(deps)
  /\ UpdateSource(i, [deps[i] EXCEPT !.is_active = b])

\* --- the other metadata tables
JoinOperators == {"=", "!=", ">", ">=", "<", "<="}
FilterOperators == JoinOperators \cup {"in", "ilike"}
ValueTransforms == {"identity", "csv_to_array", "lowercase", "trim"}
ExpressionTypes == {"column", "aggregate"}
DataTypes == {"text", "number", "percent", "date", "boolean", "json"}
AggregateFns == {"count", "sum", "avg", "min", "max"}
SortDirections == {"asc", "desc"}

\* The CHECK constraints of meta.report_dependency_joins.
PredicateChecks(row) ==
  /\ row.operator \in JoinOperators
  /\ IsIdentifier(row.left_column)
  /\ IsIdentifier(row.right_column)

\* REFERENCES meta.report_dependencies(dependency_id)
SourceExists(row) ==
  /\ row.dependency_id \in 1..Len(deps)
  /\ deps[row.dependency_id] # Gap

\* The CHECK constraints of meta.report_dependency_fields.
FieldChecks(row) ==
  /\ row.expression_type \in ExpressionTypes
  /\ row.data_type \in DataTypes
  /\ row.aggregate_fn = NullText \/ row.aggregate_fn \in AggregateFns
  /\ IsIdentifier(row.source_column)
  /\ IsIdentifier(row.output_key)

\* report_dependency_fields_output_key_uidx; also the unique indexes of the
\* grouping and sorting tables, which have the same columns.
OutputKeyUnique(table, row, at) ==
  \A i \in 1..Len(table) :
    i # at => ~(table[i].report_id = row.report_id /\ table[i].output_key = row.output_key)

\* The CHECK constraints of meta.report_dependency_filter_bindings.
BindingChecks(row) ==
  /\ row.operator \in FilterOperators
  /\ row.value_transform \in ValueTransforms
  /\ IsIdentifier(row.source_column)

\* report_dependency_filter_bindings_uidx
BindingUnique(table, row, at) ==
  \A i \in 1..Len(table) :
    i # at =>
      ~(/\ table[i].report_id = row.report_id
        /\ table[i].filter_code = row.filter_code
        /\ table[i].source_alias = row.source_alias
        /\ table[i].source_column = row.source_column)

\* The filter codes of meta.filters.
FilterCodes == {"academic_year"}
FilterExists(row) == row.filter_code \in FilterCodes

\* The CHECK constraint of meta.report_dependency_sorting.
SortingChecks(row) == row.sort_direction \in SortDirections

\* INSERT INTO meta.report_dependency_joins
InsertPredicate(row) ==
  /\ Len(joins) < MaxPreds
  /\ LET outcome == Outcome("report_dependency_joins", PredicateChecks(row), TRUE,
                            SourceExists(row))
     IN /\ result' = outcome
        /\ joins' = IF Accepts(outcome) THEN Append(joins, row) ELSE joins
  /\ UNCHANGED <<wvars, rvars, avars, qvars, xvars, reports, deps, fields, bindings, grouping, sorting>>

\* INSERT INTO meta.report_dependency_fields
InsertField(row) ==
  /\ Len(fields) < MaxFields
  /\ LET outcome == Outcome("report_dependency_fields", FieldChecks(row),
                            OutputKeyUnique(fields, row, 0), ReportExists(row))
     IN /\ result' = outcome
        /\ fields' = IF Accepts(outcome) THEN Append(fields, row) ELSE fields
  /\ UNCHANGED <<wvars, rvars, avars, qvars, xvars, reports, deps, joins, bindings, grouping, sorting>>

\* UPDATE meta.report_dependency_fields SET ... WHERE field_id = i
UpdateField(i, row) ==
  /\ i \in 1..Len(fields)
  /\ LET outcome == Outcome("report_dependency_fields", FieldChecks(row),
                            OutputKeyUnique(fields, row, i), ReportExists(row))
     IN /\ result' = outcome
        /\ fields' = IF Accepts(outcome) THEN [fields EXCEPT ![i] = row] ELSE fields
  /\ UNCHANGED <<wvars, rvars, avars, qvars, xvars, reports, deps, joins, bindings, grouping, sorting>>

\* INSERT INTO meta.report_dependency_filter_bindings
InsertBinding(row) ==
  /\ Len(bindings) < MaxFields
  /\ LET outcome == Outcome("report_dependency_filter_bindings", BindingChecks(row),
                            BindingUnique(bindings, row, 0),
                            ReportExists(row) /\ FilterExists(row))
     IN /\ result' = outcome
        /\ bindings' = IF Accepts(outcome) THEN Append(bindings, row) ELSE bindings
  /\ UNCHANGED <<wvars, rvars, avars, qvars, xvars, reports, deps, joins, fields, grouping, sorting>>

\* INSERT INTO meta.report_dependency_grouping
InsertGrouping(row) ==
  /\ Len(grouping) < MaxFields
  /\ LET outcome == Outcome("report_dependency_grouping", TRUE,
                            OutputKeyUnique(grouping, row, 0), ReportExists(row))
     IN /\ result' = outcome
        /\ grouping' = IF Accepts(outcome) THEN Append(grouping, row) ELSE grouping
  /\ UNCHANGED <<wvars, rvars, avars, qvars, xvars, reports, deps, joins, fields, bindings, sorting>>

\* INSERT INTO meta.report_dependency_sorting
InsertSorting(row) ==
  /\ Len(sorting) < MaxFields
  /\ LET outcome == Outcome("report_dependency_sorting", SortingChecks(row),
                            OutputKeyUnique(sorting, row, 0), ReportExists(row))
     IN /\ result' = outcome
        /\ sorting' = IF Accepts(outcome) THEN Append(sorting, row) ELSE sorting
  /\ UNCHANGED <<wvars, rvars, avars, qvars, xvars, reports, deps, joins, fields, bindings, grouping>>

\* --- DELETE FROM meta.reports WHERE id = ..., with ON DELETE CASCADE
\* The rows of a table that reference the report are deleted with it.
DeleteRows(table, id) == SelectSeq(table, LAMBDA row : row.report_id # id)

DeleteSources(table, id) ==
  [i \in 1..Len(table) |-> IF table[i].report_id = id THEN Gap ELSE table[i]]

\* The join predicates of a deleted source row are deleted with it.
DeletePredicatesKept(table, sources) == table

DeletePredicates(table, sources) ==
  SelectSeq(table, LAMBDA row : sources[row.dependency_id] # Gap)

DeleteReport(id) ==
  /\ id \in DOMAIN reports
  /\ reports' = [r \in DOMAIN reports \ {id} |-> reports[r]]
  /\ deps' = DeleteSources(deps, id)
  /\ joins' = DeletePredicates(joins, DeleteSources(deps, id))
  /\ fields' = DeleteRows(fields, id)
  /\ bindings' = DeleteRows(bindings, id)
  /\ grouping' = DeleteRows(grouping, id)
  /\ sorting' = DeleteRows(sorting, id)
  /\ result' = [op |-> "delete", report |-> id]
  /\ UNCHANGED <<wvars, rvars, avars, qvars, xvars>>

v_report_table_usageAllRows ==
  {[report_id |-> deps[i].report_id,
    source_schema |-> deps[i].source_schema,
    source_name |-> deps[i].source_name,
    source_alias |-> deps[i].source_alias,
    relation_role |-> deps[i].relation_role] :
     i \in {j \in 1..Len(deps) :
              /\ deps[j].report_id \in DOMAIN reports
              /\ reports[deps[j].report_id] = TRUE}}

\* meta.v_report_table_usage
v_report_table_usage ==
  {[report_id |-> deps[i].report_id,
    source_schema |-> deps[i].source_schema,
    source_name |-> deps[i].source_name,
    source_alias |-> deps[i].source_alias,
    relation_role |-> deps[i].relation_role] :
     i \in {j \in 1..Len(deps) :
              /\ deps[j].report_id \in DOMAIN reports
              /\ deps[j].is_active = TRUE
              /\ reports[deps[j].report_id] = TRUE}}

\* SELECT * FROM meta.v_report_table_usage
SelectTableUsage ==
  /\ result' = [op |-> "usage", rows |-> v_report_table_usage]
  /\ UNCHANGED <<wvars, rvars, avars, qvars, xvars, reports, deps, joins, fields, bindings,
                 grouping, sorting>>

\* --- rows written to the tables
ReportIds == {"r1", "r2"}
Ident(name) == <<name>>

\* A source row; `target` is the alias a join attaches to, Null for a base.
SourceRow(r, alias, name, target, active) ==
  [report_id |-> r, source_alias |-> alias, source_schema |-> <<"d", "a", "t", "a">>,
   source_name |-> name, source_kind |-> "table",
   relation_role |-> IF target = Null THEN "base" ELSE "join",
   join_type |-> IF target = Null THEN NullText ELSE "left",
   join_to_alias |-> target, is_active |-> active]

\* --- the graph loader of the query builder
ActiveRows(table, r) ==
  {i \in 1..Len(table) : table[i].report_id = r /\ table[i].is_active = TRUE}

\* The rows of a table at the positions `at`, in position order.
RECURSIVE Pick(_, _, _)
Pick(table, at, i) ==
  IF i > Len(table) THEN <<>>
  ELSE (IF i \in at THEN <<[id |-> i, row |-> table[i]]>> ELSE <<>>) \o Pick(table, at, i + 1)

Active(table, r) == Pick(table, ActiveRows(table, r), 1)

ActiveBases(r) == {i \in ActiveRows(deps, r) : deps[i].relation_role = "base"}

Snapshot(r, base) ==
  [base |-> base,
   nodes |-> Active(deps, r),
   predicates |->
     Pick(joins, {i \in 1..Len(joins) :
                    joins[i].is_active = TRUE /\ joins[i].dependency_id \in ActiveRows(deps, r)}, 1),
   fields |-> Active(fields, r),
   bindings |-> Active(bindings, r),
   grouping |-> Active(grouping, r),
   sorting |-> Active(sorting, r)]

loadActiveGraphFirstBase(r) ==
  IF ActiveBases(r) = {}
    THEN [error |-> "GraphIntegrityError", graph |-> <<>>]
    ELSE [error |-> "none",
          graph |-> <<Snapshot(r, CHOOSE i \in ActiveBases(r) : \A j \in ActiveBases(r) : i <= j)>>]

\* loadActiveGraph: a snapshot of the active rows (`graph` holds it, and is
\* empty when none is returned), or GraphIntegrityError unless exactly one
\* active base row exists.
loadActiveGraph(r) ==
  IF Cardinality(ActiveBases(r)) # 1
    THEN [error |-> "GraphIntegrityError", graph |-> <<>>]
    ELSE [error |-> "none", graph |-> <<Snapshot(r, CHOOSE i \in ActiveBases(r) : TRUE)>>]

LoadGraph(r) ==
  /\ r \in DOMAIN reports
  /\ LET loaded == loadActiveGraph(r)
     IN result' = [op |-> "load", report |-> r, error |-> loaded.error,
                   graph |-> loaded.graph]
  /\ UNCHANGED <<wvars, rvars, avars, qvars, xvars, reports, deps, joins, fields, bindings,
                 grouping, sorting>>

\* --- the validator of the query builder: the structural pass
Positions(seq) == 1..Len(seq)
JoinNodes(g) == {k \in Positions(g.nodes) : g.nodes[k].row.relation_role = "join"}
DeclaredBefore(g, k) == {g.nodes[j].row.source_alias : j \in 1..(k - 1)}
Declared(g, k) == {g.nodes[j].row.source_alias : j \in Positions(g.nodes)}

\* Every identifier of the graph.
Identifiers(g) ==
  UNION {{g.nodes[k].row.source_alias, g.nodes[k].row.source_schema,
          g.nodes[k].row.source_name} : k \in Positions(g.nodes)}
    \cup {g.nodes[k].row.join_to_alias : k \in JoinNodes(g)}
    \cup UNION {{g.predicates[k].row.left_alias, g.predicates[k].row.left_column,
                 g.predicates[k].row.right_alias, g.predicates[k].row.right_column} :
                  k \in Positions(g.predicates)}
    \cup UNION {{g.fields[k].row.source_alias, g.fields[k].row.source_column,
                 g.fields[k].row.output_key} : k \in Positions(g.fields)}
    \cup UNION {{g.bindings[k].row.source_alias, g.bindings[k].row.source_column} :
                  k \in Positions(g.bindings)}

Rule(name, broken) == IF broken THEN {name} ELSE {}

\* The rules of the structural pass a graph breaks; declared[k] holds the
\* aliases a join at position k may attach to.
StructuralViolations(g, declared) ==
  Rule("identifier", \E v \in Identifiers(g) : ~IsIdentifier(v))
    \cup Rule("join_target",
              \E k \in JoinNodes(g) : g.nodes[k].row.join_to_alias \notin declared[k])
    \cup Rule("predicate",
              \E k \in JoinNodes(g) :
                ~\E j \in Positions(g.predicates) :
                   g.predicates[j].row.dependency_id = g.nodes[k].id)
    \cup Rule("aggregate_fn",
              \E k \in Positions(g.fields) :
                /\ g.fields[k].row.expression_type = "aggregate"
                /\ g.fields[k].row.aggregate_fn = NullText)
    \cup Rule("output_key",
              \E j, k \in Positions(g.fields) :
                j # k /\ g.fields[j].row.output_key = g.fields[k].row.output_key)
    \cup Rule("operator",
              \E k \in Positions(g.bindings) : g.bindings[k].row.operator \notin FilterOperators)

validateAnyDeclared(g) ==
  StructuralViolations(g, [k \in Positions(g.nodes) |-> Declared(g, k)])

\* validate(graph), structural pass: the set of broken rules, empty when the
\* graph passes.  A join may attach only to an alias declared before it.
validate(g) ==
  StructuralViolations(g, [k \in Positions(g.nodes) |-> DeclaredBefore(g, k)])

\* Load the active graph of a report and validate it.
Validated(r) ==
  LET loaded == loadActiveGraph(r)
      broken == IF loaded.error = "none" THEN validate(loaded.graph[1]) ELSE {}
  IN [report |-> r, error |-> loaded.error, graph |-> loaded.graph,
      violations |-> broken,
      ok |-> loaded.error = "none" /\ broken = {}]

ValidateGraph(r) ==
  /\ r \in DOMAIN reports
  /\ LET v == Validated(r)
     IN result' = [op |-> "validate", report |-> r, error |-> v.error, graph |-> v.graph,
                   violations |-> v.violations, ok |-> v.ok]
  /\ UNCHANGED <<wvars, rvars, avars, qvars, xvars, reports, deps, joins, fields, bindings,
                 grouping, sorting>>

\* --- a report's joins and their predicates
Aliases == {Ident("a"), Ident("b"), Ident("c")}
JoinInputs ==
  {SourceRow("r1", alias, Ident("t"), target, TRUE) :
     alias \in Aliases, target \in {Null} \cup Aliases}

PredicateRow(dep, left, right, active) ==
  [dependency_id |-> dep, left_alias |-> left, left_column |-> <<"i", "d">>,
   operator |-> "=", right_alias |-> right, right_column |-> <<"i", "d">>,
   is_active |-> active]

PredicateInputs == {PredicateRow(dep, Ident("a"), Ident("b"), TRUE) : dep \in 1..MaxDeps}

NextJoins ==
  \/ InsertReport("r1", TRUE)
  \/ \E row \in JoinInputs : InsertSource(row)
  \/ \E row \in PredicateInputs : InsertPredicate(row)
  \/ ValidateGraph("r1")

SpecJoins == InitRoutes /\ [][NextJoins]_vars

\* --- the compiler of the query builder: the aggregation rule
AggregateFields(g) ==
  {k \in Positions(g.fields) : g.fields[k].row.expression_type = "aggregate"}
PlainKeys(g) ==
  {g.fields[k].row.output_key : k \in Positions(g.fields) \ AggregateFields(g)}
GroupedKeys(g) == {g.grouping[k].row.output_key : k \in Positions(g.grouping)}

\* The SELECT list and the GROUP BY list, as output keys.
CompiledQuery(g) ==
  [select |-> [k \in Positions(g.fields) |-> g.fields[k].row.output_key],
   groupBy |-> [k \in Positions(g.grouping) |-> g.grouping[k].row.output_key]]

compileUngrouped(g) == [error |-> "none", query |-> <<CompiledQuery(g)>>]

\* compile(graph): with an aggregate field, every other selected output key
\* must be grouped, else GroupingMismatchError and no query.
compile(g) ==
  IF AggregateFields(g) # {} /\ ~(PlainKeys(g) \subseteq GroupedKeys(g))
    THEN [error |-> "GroupingMismatchError", query |-> <<>>]
    ELSE [error |-> "none", query |-> <<CompiledQuery(g)>>]

\* Load, validate and compile the active graph of a report.
CompileReport(r) ==
  /\ r \in DOMAIN reports
  /\ LET v == Validated(r)
         compiled ==
           IF v.ok THEN compile(v.graph[1])
           ELSE [error |-> IF v.error # "none" THEN v.error ELSE "ValidationError",
                 query |-> <<>>]
     IN result' = [op |-> "compile", report |-> r, error |-> compiled.error,
                   query |-> compiled.query]
  /\ UNCHANGED <<wvars, rvars, avars, qvars, xvars, reports, deps, joins, fields, bindings,
                 grouping, sorting>>

\* --- a report's output fields and grouping
OutputKeys == {<<"k", "1">>, <<"k", "2">>, <<"k", "3">>}

FieldRow(r, alias, key, expr, fn, active) ==
  [report_id |-> r, source_alias |-> alias, source_column |-> <<"c">>, output_key |-> key,
   data_type |-> "number", expression_type |-> expr, aggregate_fn |-> fn,
   is_active |-> active]

GroupingRow(r, key, active) == [report_id |-> r, output_key |-> key, is_active |-> active]

FieldInputs ==
  {FieldRow("r1", Ident("a"), key, "column", NullText, active) :
     key \in OutputKeys, active \in BOOLEAN}
    \cup {FieldRow("r1", Ident("a"), key, "aggregate", "sum", active) :
            key \in OutputKeys, active \in BOOLEAN}

GroupingInputs == {GroupingRow("r1", key, active) : key \in OutputKeys, active \in BOOLEAN}

NextCompile ==
  \/ InsertReport("r1", TRUE)
  \/ InsertSource(SourceRow("r1", Ident("a"), Ident("t"), Null, TRUE))
  \/ \E row \in FieldInputs : InsertField(row)
  \/ \E row \in GroupingInputs : InsertGrouping(row)
  \/ CompileReport("r1")

SpecCompile == InitRoutes /\ [][NextCompile]_vars

\* --- source rows of the reports: inserts, updates, activation, lineage
\* Alias a is a base on data.t; alias b is a base or a join on data.u.
SourceInputs ==
  {SourceRow(r, Ident("a"), Ident("t"), Null, active) : r \in ReportIds, active \in BOOLEAN}
    \cup {SourceRow(r, Ident("b"), Ident("u"), target, active) :
            r \in ReportIds, target \in {Null, Ident("a")}, active \in BOOLEAN}

NextSources ==
  \/ \E id \in ReportIds : InsertReport(id, TRUE)
  \/ \E id \in ReportIds, b \in BOOLEAN : UpdateReport(id, b)
  \/ \E row \in SourceInputs : InsertSource(row)
  \/ \E i \in 1..MaxDeps, row \in SourceInputs : UpdateSource(i, row)
  \/ \E i \in 1..MaxDeps, b \in BOOLEAN : SetSourceActive(i, b)
  \/ \E r \in ReportIds : LoadGraph(r)
  \/ SelectTableUsage

SpecSources == InitRoutes /\ [][NextSources]_vars

\* --- rows of every metadata table, written by an administrative editor
BindingRow(r, code, alias, active) ==
  [report_id |-> r, filter_code |-> code, source_alias |-> alias,
   source_column |-> <<"c">>, operator |-> "=", value_transform |-> "identity",
   is_active |-> active]

SortingRow(r, key, active) ==
  [report_id |-> r, output_key |-> key, sort_direction |-> "asc", is_active |-> active]

\* A text that is no identifier.
Quoted == <<"a", "\"", ";">>

StoreSources ==
  {SourceRow("r1", Ident("a"), Ident("t"), Null, TRUE),
   SourceRow("r1", Quoted, Ident("t"), Null, TRUE),
   SourceRow("r1", Ident("b"), Ident("u"), Ident("a"), TRUE),
   SourceRow("r1", Ident("b"), Ident("u"), Quoted, TRUE)}

StorePredicates ==
  {PredicateRow(dep, left, Ident("b"), TRUE) : dep \in 1..MaxDeps, left \in {Ident("a"), Quoted}}

StoreFields ==
  {FieldRow("r1", alias, <<"k", "1">>, expr, fn, TRUE) :
     alias \in {Ident("a"), Quoted}, expr \in {"column", "aggregate"}, fn \in {NullText, "sum"}}
    \cup {FieldRow("r1", Ident("a"), Quoted, "column", NullText, TRUE)}

StoreBindings ==
  {BindingRow("r1", "academic_year", alias, TRUE) : alias \in {Ident("a"), Quoted}}

NextStore ==
  \/ InsertReport("r1", TRUE)
  \/ \E row \in StoreSources : InsertSource(row)
  \/ \E i \in 1..MaxDeps, b \in BOOLEAN : SetSourceActive(i, b)
  \/ \E row \in StorePredicates : InsertPredicate(row)
  \/ \E row \in StoreFields : InsertField(row)
  \/ \E row \in StoreBindings : InsertBinding(row)
  \/ InsertGrouping(GroupingRow("r1", <<"k", "1">>, TRUE))
  \/ InsertSorting(SortingRow("r1", <<"k", "1">>, TRUE))

SpecStore == InitRoutes /\ [][NextStore]_vars

\* --- aliases and output keys written twice
KeySources ==
  {SourceRow(r, alias, Ident("t"), Null, TRUE) :
     r \in ReportIds, alias \in {Ident("a"), Ident("b")}}

KeyFields ==
  {FieldRow(r, Ident("a"), key, "column", NullText, TRUE) :
     r \in ReportIds, key \in {<<"k", "1">>, <<"k", "2">>}}

NextKeys ==
  \/ \E id \in ReportIds : InsertReport(id, TRUE)
  \/ \E row \in KeySources : InsertSource(row)
  \/ \E i \in 1..MaxDeps, row \in KeySources : UpdateSource(i, row)
  \/ \E row \in KeyFields : InsertField(row)
  \/ \E i \in 1..MaxFields, row \in KeyFields : UpdateField(i, row)

SpecKeys == InitRoutes /\ [][NextKeys]_vars

\* --- reports created with rows in every table, then deleted
DeleteSourceInputs == {SourceRow(r, Ident("a"), Ident("t"), Null, TRUE) : r \in ReportIds}

NextDelete ==
  \/ \E id \in ReportIds : InsertReport(id, TRUE)
  \/ \E row \in DeleteSourceInputs : InsertSource(row)
  \/ \E dep \in 1..MaxDeps : InsertPredicate(PredicateRow(dep, Ident("a"), Ident("a"), TRUE))
  \/ \E r \in ReportIds : InsertField(FieldRow(r, Ident("a"), <<"k", "1">>, "column", NullText, TRUE))
  \/ \E r \in ReportIds : InsertBinding(BindingRow(r, "academic_year", Ident("a"), TRUE))
  \/ \E r \in ReportIds : InsertGrouping(GroupingRow(r, <<"k", "1">>, TRUE))
  \/ \E r \in ReportIds : InsertSorting(SortingRow(r, <<"k", "1">>, TRUE))
  \/ \E id \in ReportIds : DeleteReport(id)

SpecDelete == InitRoutes /\ [][NextDelete]_vars

\* --- source rows of any role, join type and join target
ShapeSources ==
  {[SourceRow("r1", alias, Ident("t"), Null, TRUE)
      EXCEPT !.relation_role = role, !.join_type = type, !.join_to_alias = target] :
     alias \in {Ident("a"), Ident("b")}, role \in {"base", "join", "lookup"},
     type \in {NullText, "left", "cross", "outer"},
     target \in {Null, Ident("a"), Ident("b")}}

NextShape ==
  \/ InsertReport("r1", TRUE)
  \/ \E row \in ShapeSources : InsertSource(row)
  \/ \E i \in 1..MaxDeps, row \in ShapeSources : UpdateSource(i, row)
  \/ \E i \in 1..MaxDeps, b \in BOOLEAN : SetSourceActive(i, b)

SpecShape == InitRoutes /\ [][NextShape]_vars

\* ------------------------------------------------------------------ masking
\* A result row is an object whose own keys are the query's column names; it
\* inherits the property names of Object.prototype, of which this is one.
ToStringName == <<"t", "o", "S", "t", "r", "i", "n", "g">>
ProtoKeys == {ToStringName}
\* The value of an inherited property (a native function).
ProtoValue == <<"<native>">>

\* key in obj
In(key, obj) == key \in DOMAIN obj \/ key \in ProtoKeys

\* obj[key]
Get(obj, key) == IF key \in DOMAIN obj THEN obj[key] ELSE ProtoValue

\* obj[key] = v
Put(obj, key, v) == [k \in DOMAIN obj \cup {key} |-> IF k = key THEN v ELSE obj[k]]

\* The body of the loop over the rules, on the working copy `out` of a row.
ApplyRuleAlternateUntrimmed(out, rule) ==
  LET targetColumn == Trim(JsString(OrEmpty(rule.column_name)))
      alternateColumn == JsString(OrEmpty(rule.alternate_column))
  IN IF targetColumn = <<>> \/ ~In(targetColumn, out) THEN out
     ELSE IF alternateColumn # <<>> /\ In(alternateColumn, out)
            THEN Put(out, targetColumn, Get(out, alternateColumn))
            ELSE Put(out, targetColumn, rule.redacted_value)

ApplyRuleKeepsUnredacted(out, rule) ==
  LET targetColumn == Trim(JsString(OrEmpty(rule.column_name)))
      alternateColumn == Trim(JsString(OrEmpty(rule.alternate_column)))
  IN IF targetColumn = <<>> \/ ~In(targetColumn, out) THEN out
     ELSE IF alternateColumn # <<>> /\ In(alternateColumn, out)
            THEN Put(out, targetColumn, Get(out, alternateColumn))
            ELSE IF rule.redacted_value = Null THEN out
            ELSE Put(out, targetColumn, rule.redacted_value)

ApplyRule(out, rule) ==
  LET targetColumn == Trim(JsString(OrEmpty(rule.column_name)))
      alternateColumn == Trim(JsString(OrEmpty(rule.alternate_column)))
  IN IF targetColumn = <<>> \/ ~In(targetColumn, out) THEN out
     ELSE IF alternateColumn # <<>> /\ In(alternateColumn, out)
            THEN Put(out, targetColumn, Get(out, alternateColumn))
            ELSE Put(out, targetColumn, rule.redacted_value)

\* for (const rule of piiColumns) { ... }
RECURSIVE ApplyRules(_, _)
ApplyRules(out, rules) ==
  IF rules = <<>> THEN out ELSE ApplyRules(ApplyRule(out, Head(rules)), Tail(rules))

anonymizeRowsWithRules(rs, rules, on) ==
  IF ~on \/ Len(rs) = 0 \/ Len(rules) = 0 THEN rs
  ELSE [i \in 1..Len(rs) |-> ApplyRules(rs[i], rules)]

\* The rows of meta.pii_columns: column names with and without padding, blank
\* and null ones; alternate columns absent, padded, or naming a column that is
\* itself listed; redacted values absent or present.
ColumnNames == {<<"a">>, <<"a", " ">>, <<"b">>, ToStringName, <<" ">>, Null}
AlternateColumns == {Null, <<"a">>, <<"b", " ">>}
RedactedValues == {Null, <<"X">>}

RuleRows ==
  { t \in [column_name : ColumnNames, alternate_column : AlternateColumns,
           redacted_value : RedactedValues] :
      t.column_name \in {<<" ">>, Null} =>
        (t.alternate_column = Null /\ t.redacted_value = Null) }

\* ORDER BY pc.column_name: the place of each name in ascending order, the
\* null name last.
ColumnRank(name) ==
  CASE name = <<" ">> -> 0
    [] name = <<"a">> -> 1
    [] name = <<"a", " ">> -> 2
    [] name = <<"b">> -> 3
    [] name = ToStringName -> 4
    [] OTHER -> 5

\* What the SELECT on meta.pii_columns can return.
RuleTables ==
  { t \in UNION { [1..n -> RuleRows] : n \in 0..MaxRules } :
      \A i \in 1..Len(t) : \A j \in 1..Len(t) :
        i < j => ColumnRank(t[i].column_name) <= ColumnRank(t[j].column_name) }

\* rows.map(...).filter(...) of getPiiColumnsForReport
RECURSIVE KeepNamed(_)
KeepNamed(t) ==
  IF t = <<>> THEN <<>>
  ELSE LET rule == [column_name |-> Trim(JsString(OrEmpty(Head(t).column_name))),
                    alternate_column |-> Head(t).alternate_column,
                    redacted_value |-> Head(t).redacted_value]
       IN IF Len(rule.column_name) > 0
            THEN <<rule>> \o KeepNamed(Tail(t))
            ELSE KeepNamed(Tail(t))

\* The rows a report query can return: every row has the query's columns.
KeySets == {{<<"a">>}, {<<"a">>, <<"b">>}}
Values == {<<"p">>, <<"q">>}

RowSets ==
  UNION { UNION { [1..n -> [keys -> Values]] : n \in 0..MaxRows } : keys \in KeySets }

\* const piiColumns = await getPiiColumnsForReport(db, reportRoute)
GetPiiColumnsForReport ==
  /\ step \in {"start", "parsed"}
  /\ \E t \in RuleTables : piiColumns' = KeepNamed(t)
  /\ step' = "loaded"
  /\ UNCHANGED <<wvars, rvars, ovars, rows, enabled, output>>

\* The handler's row query.
FetchRows ==
  /\ step = "loaded"
  /\ \E rs \in RowSets : rows' = rs
  /\ step' = "fetched"
  /\ UNCHANGED <<wvars, rvars, ovars, piiColumns, enabled, output>>

\* anonymizeRows(rows), with the flag parsed from the `anonymize` parameter.
AnonymizeRows ==
  /\ step = "fetched"
  /\ \E a \in AnonParams :
       /\ enabled' = ParseBool(a)
       /\ output' = anonymizeRowsWithRules(rows, piiColumns, ParseBool(a))
  /\ step' = "done"
  /\ UNCHANGED <<wvars, rvars, ovars, rows, piiColumns>>

NextMask == GetPiiColumnsForReport \/ FetchRows \/ AnonymizeRows

SpecMask == InitRoutes /\ [][NextMask]_vars

\* --- withSecureReport, from the request's URL to the masked rows
\* The values of the `anonymize` query parameter (Null: absent).
SecureParams ==
  {Null, <<>>, <<"1">>, <<"0">>, <<"t", "r", "u", "e">>, <<"T", "R", "U", "E">>,
   <<"1", " ">>, <<"y", "e", "s">>}

\* const anonymize = parseBool(url.searchParams.get("anonymize"))
ParseAnonymize ==
  /\ step = "start"
  /\ \E a \in SecureParams :
       /\ anon' = [anon EXCEPT ![1] = a]
       /\ enabled' = ParseBool(a)
  /\ step' = "parsed"
  /\ UNCHANGED <<wvars, path, check, piiLoaded, reads, ovars, rows, piiColumns, output>>

\* anonymizeRows(rows) of the handler, and meta.anonymized
SecureAnonymizeRows ==
  /\ step = "fetched"
  /\ output' = anonymizeRowsWithRules(rows, piiColumns, enabled)
  /\ step' = "done"
  /\ UNCHANGED <<wvars, rvars, ovars, rows, piiColumns, enabled>>

NextSecure ==
  \/ ParseAnonymize
  \/ step = "parsed" /\ GetPiiColumnsForReport
  \/ FetchRows
  \/ SecureAnonymizeRows

SpecSecure == InitRoutes /\ [][NextSecure]_vars

\* -------------------------------------------------------------- requireAuth
\* String.prototype.toLowerCase, on the letters that occur here.
LowerChar(c) ==
  CASE c = "A" -> "a" [] c = "B" -> "b" [] c = "C" -> "c" [] c = "D" -> "d"
    [] c = "E" -> "e" [] c = "H" -> "h" [] c = "T" -> "t" [] c = "U" -> "u"
    [] OTHER -> c

ToLowerCase(s) == [i \in 1..Len(s) |-> LowerChar(s[i])]

\* String.prototype.endsWith
EndsWith(s, suffix) ==
  /\ Len(s) >= Len(suffix)
  /\ SubSeq(s, Len(s) - Len(suffix) + 1, Len(s)) = suffix

BtechDomain == <<"@", "b", "t", "e", "c", "h", ".", "e", "d", "u">>
Address(local) == local \o BtechDomain

\* The rows of auth."user": an active account, an active administrator whose
\* email is stored capitalised, and a disabled account.
AuthUsers ==
  {[sis_user_id |-> <<"1">>, email |-> Address(<<"a">>), is_active |-> TRUE, is_admin |-> FALSE],
   [sis_user_id |-> <<"2">>, email |-> Address(<<"B">>), is_active |-> TRUE, is_admin |-> TRUE],
   [sis_user_id |-> <<"3">>, email |-> Address(<<"c">>), is_active |-> FALSE, is_admin |-> FALSE]}

NoAccount == [sis_user_id |-> Null, email |-> Null, is_active |-> FALSE, is_admin |-> FALSE]

\* WHERE lower(email) = $1
SelectUser(email) == {u \in AuthUsers : ToLowerCase(u.email) = email}

NoError == [status |-> 0, error |-> "none"]
HttpError(status, error) == [status |-> status, error |-> error]
\* An error of the database driver (no HttpError).
QueryError == [status |-> 0, error |-> "query failed"]

\* A call of requireAuth: its place, the request headers and the environment
\* it read, the normalised email, the account row, the login source, what the
\* INSERT's subquery saw, the error thrown and the user returned.
AuthCall(at, h, env, email, u, source, seen, error) ==
  [pc |-> at, headers |-> h, env |-> env, email |-> email, u |-> u, source |-> source,
   seen |-> seen, error |-> error]

\* let emailRaw = (h.get("x-email") || "").trim(), with the development bypass
EmailRawNoBypassGuard(h, env) ==
  LET emailRaw == Trim(OrEmpty(h.x_email))
  IN IF emailRaw = <<>> /\ env.SKIP_AUTH = "true"
       THEN Trim(OrEmpty(env.DEV_EMAIL))
       ELSE emailRaw

EmailRaw(h, env) ==
  LET emailRaw == Trim(OrEmpty(h.x_email))
  IN IF emailRaw = <<>> /\ env.SKIP_AUTH = "true" /\ env.NODE_ENV # "production"
       THEN Trim(OrEmpty(env.DEV_EMAIL))
       ELSE emailRaw

\* requireAuth up to the account lookup: 401 without an email, 403 outside
\* the domain.
RequireAuthHeaders(r, h, env) ==
  /\ auth[r].pc = "start"
  /\ LET email == ToLowerCase(EmailRaw(h, env))
         call(at, error) == AuthCall(at, h, env, email, NoAccount, Null, FALSE, error)
     IN auth' = [auth EXCEPT ![r] =
          IF email = <<>>
            THEN call("thrown", HttpError(401, "Unauthorized: missing X-Email header"))
          ELSE IF ~EndsWith(email, BtechDomain)
            THEN call("thrown", HttpError(403, "Forbidden: must be @btech.edu"))
          ELSE call("select", NoError)]
  /\ UNCHANGED <<wvars, rvars, avars, qvars, svars, user_login, page, rec>>

\* SELECT ... FROM auth."user" WHERE lower(email) = $1 LIMIT 1, and the checks
\* on its row; the query may fail.
RequireAuthSelect(r) ==
  /\ auth[r].pc = "select"
  /\ \/ auth' = [auth EXCEPT ![r].pc = "thrown", ![r].error = QueryError]
     \/ /\ SelectUser(auth[r].email) = {}
        /\ auth' = [auth EXCEPT ![r].pc = "thrown",
                                ![r].error = HttpError(403, "Access not provisioned")]
     \/ \E u \in SelectUser(auth[r].email) :
          auth' = [auth EXCEPT ![r] =
            IF ~u.is_active
              THEN [auth[r] EXCEPT !.pc = "thrown", !.u = u,
                                   !.error = HttpError(403, "Account disabled")]
              ELSE [auth[r] EXCEPT !.pc = "found", !.u = u]]
  /\ UNCHANGED <<wvars, rvars, avars, qvars, svars, user_login, page, rec>>

\* The version of lib/auth.ts that updates last_login_at: the UPDATE is awaited
\* outside any try block.
UpdateLastLogin(r) ==
  /\ auth[r].pc = "found"
  /\ \/ auth' = [auth EXCEPT ![r].pc = "returned"]
     \/ auth' = [auth EXCEPT ![r].pc = "thrown", ![r].error = QueryError]
  /\ UNCHANGED <<wvars, rvars, avars, qvars, svars, user_login, page, rec>>

\* createHash("sha256").update(`${name}:${value}`).digest("hex").slice(0, 24)
\* of the first candidate cookie that is present; null without one.
getAuthSessionFingerprint(cookie) ==
  IF cookie = Null \/ cookie = <<>> THEN Null ELSE <<"sha256:">> \o cookie

SourceBase(env) ==
  IF env.SKIP_AUTH = "true" /\ env.NODE_ENV # "production" THEN "dev-skip-auth" ELSE "web"

Source(h, env) ==
  LET sessionFingerprint == getAuthSessionFingerprint(h.cookie)
  IN IF sessionFingerprint = Null THEN Null
     ELSE <<SourceBase(env), ":session:">> \o sessionFingerprint

\* The version of lib/auth.ts that tracks logins: without a session cookie
\* the user is returned at once.
TrackLogin(r) ==
  /\ auth[r].pc = "found"
  /\ LET source == Source(auth[r].headers, auth[r].env)
     IN auth' = [auth EXCEPT ![r].source = source,
                             ![r].pc = IF source = Null THEN "returned" ELSE "insert"]
  /\ UNCHANGED <<wvars, rvars, avars, qvars, svars, user_login, page, rec>>

\* WHERE NOT EXISTS (SELECT 1 FROM auth.user_login ul WHERE ul.sis_user_id = $1
\* AND ul.source = $5 AND ul.success = true), on the rows `table`
LoginExists(table, sis_user_id, source) ==
  \E i \in 1..Len(table) :
    /\ table[i].sis_user_id = sis_user_id
    /\ table[i].source = source
    /\ table[i].success = TRUE

\* The INSERT ... SELECT ... WHERE NOT EXISTS starts: its subquery reads the
\* rows committed so far.  The statement may fail; the catch block logs a
\* warning and the user is returned.
LoginInsertRead(r) ==
  /\ auth[r].pc = "insert"
  /\ \/ auth' = [auth EXCEPT ![r].pc = "write",
                             ![r].seen = LoginExists(user_login, auth[r].u.sis_user_id,
                                                     auth[r].source)]
     \/ auth' = [auth EXCEPT ![r].pc = "returned"]
  /\ UNCHANGED <<wvars, rvars, avars, qvars, svars, user_login, page, rec>>

\* The INSERT writes its row, unless its subquery saw one, and commits.
LoginInsertWrite(r) ==
  /\ auth[r].pc = "write"
  /\ user_login' =
       IF auth[r].seen THEN user_login
       ELSE Append(user_login, [sis_user_id |-> auth[r].u.sis_user_id,
                                source |-> auth[r].source, success |-> TRUE,
                                email |-> auth[r].u.email])
  /\ auth' = [auth EXCEPT ![r].pc = "returned"]
  /\ UNCHANGED <<wvars, rvars, avars, qvars, svars, page, rec>>

\* The X-Email and Cookie headers of a request (Null: absent).
XEmails ==
  {Null, <<>>, <<" ">>, Address(<<"a">>), <<" ">> \o Address(<<"a">>) \o <<" ">>,
   <<"A", "@", "B", "T", "E", "C", "H", ".", "E", "D", "U">>, Address(<<"b">>),
   Address(<<"c">>), Address(<<"z">>), <<"a", "@", "x", ".", "i", "o">>, BtechDomain}

Headers == [x_email : XEmails, cookie : {Null, <<"s", "1">>}]

\* process.env
Envs ==
  [SKIP_AUTH : {"true", "false"}, NODE_ENV : {"production", "development"},
   DEV_EMAIL : {Null, Address(<<"a">>), <<"d", "e", "v">>}]

\* One call at a time, over every header and environment.
NextAuth ==
  \/ \E h \in Headers, env \in Envs : RequireAuthHeaders(1, h, env)
  \/ RequireAuthSelect(1)
  \/ UpdateLastLogin(1)
  \/ TrackLogin(1)
  \/ LoginInsertRead(1)
  \/ LoginInsertWrite(1)

SpecAuth == InitRoutes /\ [][NextAuth]_vars

\* Concurrent calls for one account, each with one of two session cookies.
LoginHeaders == [x_email : {Address(<<"a">>)}, cookie : {<<"s", "1">>, <<"s", "2">>}]
LoginEnv == [SKIP_AUTH |-> "false", NODE_ENV |-> "production", DEV_EMAIL |-> Null]

NextLogin ==
  \E r \in Requests :
    \/ \E h \in LoginHeaders : RequireAuthHeaders(r, h, LoginEnv)
    \/ RequireAuthSelect(r)
    \/ TrackLogin(r)
    \/ LoginInsertRead(r)
    \/ LoginInsertWrite(r)

SpecLogin == InitRoutes /\ [][NextLogin]_vars

\* -------------------------------------------------------- useReportPageData
\* The refreshes one page starts.
MaxFetches == 3

\* The values of searchParams.toString() the page is rendered with.
SearchKeys == {"year=1", "year=2"}

\* What `rows` can hold: the initialRows, resetRowsBeforeFetch or
\* rowsOnFetchError argument, or what fetchRows resolved with for the search
\* parameters and the anonymize flag it was called with.
RowsOf(origin, key, anonymize) ==
  [origin |-> origin, searchParams |-> key, anonymize |-> anonymize]

InitialRows == RowsOf("initialRows", "", FALSE)
ResetRows == RowsOf("resetRowsBeforeFetch", "", FALSE)
ErrorRows == RowsOf("rowsOnFetchError", "", FALSE)

\* The options of the hook: whether resetRowsBeforeFetch and rowsOnFetchError
\* are given.
HookOptions == [reset : BOOLEAN, onError : BOOLEAN]

\* refresh(): setError(null), setLoading(true), the optional reset of rows,
\* and the call of fetchRows with the current search parameters and
\* getAnonymizeEnabled().
Refresh(p, key, anonymize) ==
  [p EXCEPT !.stage = "mounted",
            !.searchParamsKey = key,
            !.anonymize = anonymize,
            !.error = FALSE,
            !.loading = TRUE,
            !.rows = IF p.options.reset THEN ResetRows ELSE p.rows,
            !.fetches = Append(p.fetches,
                               [searchParams |-> key, anonymize |-> anonymize,
                                state |-> "pending"])]

\* The first render and its effects.
Mount(options, key, anonymize) ==
  /\ page.stage = "unmounted"
  /\ page' = Refresh([stage |-> "unmounted", options |-> options, searchParamsKey |-> key,
                      anonymize |-> anonymize, rows |-> InitialRows, loading |-> FALSE,
                      error |-> FALSE, fetches |-> <<>>],
                     key, anonymize)
  /\ UNCHANGED <<wvars, rvars, avars, qvars, svars, auth, user_login, rec>>

\* The search parameters change: refresh is rebuilt and the effect runs it.
Navigate(key) ==
  /\ page.stage = "mounted"
  /\ Len(page.fetches) < MaxFetches
  /\ key # page.searchParamsKey
  /\ page' = Refresh(page, key, page.anonymize)
  /\ UNCHANGED <<wvars, rvars, avars, qvars, svars, auth, user_login, rec>>

\* The sidebar toggles Anonymize and dispatches analytics:anonymize-change.
onAnonymizeChange ==
  /\ page.stage = "mounted"
  /\ Len(page.fetches) < MaxFetches
  /\ page' = Refresh(page, page.searchParamsKey, ~page.anonymize)
  /\ UNCHANGED <<wvars, rvars, avars, qvars, svars, auth, user_login, rec>>

Pending(p) == {i \in 1..Len(p.fetches) : p.fetches[i].state = "pending"}

\* fetchRows of refresh i resolves: setRows(data), setLoading(false).
FetchResolves(i) ==
  /\ page.stage = "mounted"
  /\ i \in Pending(page)
  /\ page' = [page EXCEPT !.rows = RowsOf("fetchRows", page.fetches[i].searchParams,
                                          page.fetches[i].anonymize),
                          !.loading = FALSE,
                          !.fetches[i].state = "resolved"]
  /\ UNCHANGED <<wvars, rvars, avars, qvars, svars, auth, user_login, rec>>

\* fetchRows of refresh i rejects: setRows(rowsOnFetchError ?? initialRows),
\* setError(String(e)), setLoading(false).
FetchRejects(i) ==
  /\ page.stage = "mounted"
  /\ i \in Pending(page)
  /\ page' = [page EXCEPT !.rows = IF page.options.onError THEN ErrorRows ELSE InitialRows,
                          !.error = TRUE,
                          !.loading = FALSE,
                          !.fetches[i].state = "rejected"]
  /\ UNCHANGED <<wvars, rvars, avars, qvars, svars, auth, user_login, rec>>

NextPage ==
  \/ \E options \in HookOptions, key \in SearchKeys, b \in BOOLEAN : Mount(options, key, b)
  \/ \E key \in SearchKeys : Navigate(key)
  \/ onAnonymizeChange
  \/ \E i \in 1..MaxFetches : FetchResolves(i)
  \/ \E i \in 1..MaxFetches : FetchRejects(i)

SpecPage == InitRoutes /\ [][NextPage]_vars

\* ----------------------------------------------- POST /api/reports/recommend
\* .slice(0, 3) of the fallback, .slice(0, 5) of its scored list and of the
\* response.
TopActive == 3
MaxScored == 5
MaxRecommendations == 5

\* list.slice(0, n)
Slice(list, n) == SubSeq(list, 1, IF Len(list) < n THEN Len(list) ELSE n)

RECURSIVE StripLeadingSlashes(_)
StripLeadingSlashes(t) ==
  IF t # <<>> /\ Head(t) = "/" THEN StripLeadingSlashes(Tail(t)) ELSE t

RECURSIVE StripTrailingSlashes(_)
StripTrailingSlashes(t) ==
  IF t # <<>> /\ t[Len(t)] = "/"
    THEN StripTrailingSlashes(SubSeq(t, 1, Len(t) - 1))
    ELSE t

\* String(route ?? "").trim().replace(/^\/+|\/+$/g, "")
normalizeRoute(route) ==
  StripTrailingSlashes(StripLeadingSlashes(Trim(JsString(OrEmpty(route)))))

\* rows.map(...).filter((row) => row.route.length > 0) of
\* getActiveReportsWithTags
RECURSIVE ReportRecords(_)
ReportRecords(table) ==
  IF table = <<>> THEN <<>>
  ELSE LET row == Head(table)
           route == normalizeRoute(row.route)
           record == [id |-> row.id,
                      title |-> IF row.title = Null THEN route ELSE row.title,
                      category |-> ToLowerCase(Trim(JsString(OrEmpty(row.category)))),
                      route |-> route,
                      description |-> row.description]
       IN (IF Len(route) > 0 THEN <<record>> ELSE <<>>) \o ReportRecords(Tail(table))

\* parsed.recommendations.map(...).filter((item) => item.route && item.reason)
RECURSIVE ParsedItems(_)
ParsedItems(items) ==
  IF items = <<>> THEN <<>>
  ELSE LET item == [route |-> normalizeRoute(Head(items).route),
                    reason |-> Trim(JsString(OrEmpty(Head(items).reason)))]
       IN (IF item.route # <<>> /\ item.reason # <<>> THEN <<item>> ELSE <<>>)
            \o ParsedItems(Tail(items))

\* tryParseJson: null when the content is no JSON or has no recommendations
\* array; an answer is [json |-> BOOLEAN, array |-> BOOLEAN, items |-> ...].
NoRanking == [ranked |-> FALSE, items |-> <<>>]
tryParseJson(content) ==
  IF content.json /\ content.array
    THEN [ranked |-> TRUE, items |-> ParsedItems(content.items)]
    ELSE NoRanking

\* query.toLowerCase().split(/[^a-z0-9]+/)
RECURSIVE Split(_, _)
Split(t, word) ==
  IF t = <<>> THEN <<word>>
  ELSE IF Head(t) \in LowerLetters \cup IdentDigits
    THEN Split(Tail(t), Append(word, Head(t)))
    ELSE <<word>> \o Split(Tail(t), <<>>)

\* ... .map((token) => token.trim()).filter((token) => token.length > 1)
Tokens(q) == SelectSeq(Split(ToLowerCase(q), <<>>), LAMBDA token : Len(Trim(token)) > 1)

\* text.includes(token)
StringIncludes(text, token) ==
  \E i \in 1..(Len(text) - Len(token) + 1) : SubSeq(text, i, i + Len(token) - 1) = token

\* The text of a report the tokens are searched in.
SearchText(report) ==
  ToLowerCase(report.title) \o <<" ">> \o ToLowerCase(report.category) \o <<" ">>
    \o ToLowerCase(report.route) \o <<" ">> \o ToLowerCase(OrEmpty(report.description))
    \o <<" ">>

Hits(report, tokens) ==
  Cardinality({k \in 1..Len(tokens) : StringIncludes(SearchText(report), tokens[k])})

\* .filter((row) => row.hits > 0).sort((a, b) => b.hits - a.hits): the
\* positions of the matching reports, most hits first, equal hits in catalog
\* order.
Scored(catalog, tokens) ==
  LET matching == {i \in 1..Len(catalog) : Hits(catalog[i], tokens) > 0}
      before(i, j) == \/ Hits(catalog[i], tokens) > Hits(catalog[j], tokens)
                      \/ Hits(catalog[i], tokens) = Hits(catalog[j], tokens) /\ i < j
      rank(i) == 1 + Cardinality({j \in matching : before(j, i)})
  IN [n \in 1..Cardinality(matching) |-> CHOOSE i \in matching : rank(i) = n]

Item(route, reason) == [route |-> route, reason |-> reason]

\* scoreReportsFallback
scoreReportsFallback(q, catalog) ==
  LET tokens == Tokens(q)
      top(reason) == [i \in 1..Len(Slice(catalog, TopActive)) |-> Item(catalog[i].route, reason)]
      scored == Slice(Scored(catalog, tokens), MaxScored)
  IN IF Len(tokens) = 0 THEN top(<<"General top active report.">>)
     ELSE IF Len(scored) = 0
       THEN top(<<"No exact match found; this is a broad-fit active report.">>)
     ELSE [n \in 1..Len(scored) |->
             Item(catalog[scored[n]].route,
                  <<"Matched your search terms against report metadata.">>)]

\* new Map(reports.map((report) => [report.route, report])).get(route): the
\* last report with the route.
ReportByRoute(catalog, route) ==
  LET at == {i \in 1..Len(catalog) : catalog[i].route = route}
  IN IF at = {} THEN 0 ELSE CHOOSE i \in at : \A j \in at : j <= i

\* ranked.map(...).filter((item) => item !== null).slice(0, 5)
RECURSIVE Known(_, _)
Known(ranked, catalog) ==
  IF ranked = <<>> THEN <<>>
  ELSE LET at == ReportByRoute(catalog, Head(ranked).route)
       IN (IF at = 0 THEN <<>>
           ELSE <<[id |-> catalog[at].id, title |-> catalog[at].title,
                   route |-> catalog[at].route, reason |-> Head(ranked).reason]>>)
            \o Known(Tail(ranked), catalog)

RECURSIVE Unfiltered(_, _)
Unfiltered(ranked, catalog) ==
  IF ranked = <<>> THEN <<>>
  ELSE <<[id |-> "", title |-> Null, route |-> Head(ranked).route,
          reason |-> Head(ranked).reason]>> \o Unfiltered(Tail(ranked), catalog)

RecommendationsUnfiltered(ranked, catalog) ==
  Slice(Unfiltered(ranked, catalog), MaxRecommendations)

Recommendations(ranked, catalog) == Slice(Known(ranked, catalog), MaxRecommendations)

\* A content that is no JSON.
NoContent == [json |-> FALSE, array |-> FALSE, items |-> <<>>]

\* The answer of the route.
Answer(status, recommendations, used_ai) ==
  [status |-> status, recommendations |-> recommendations, used_ai |-> used_ai]

\* const body = await request.json(); const query = String(body?.query ??
\* "").trim(): 500 for a body that is no JSON, 400 without a query.
ReceiveRecommend(body) ==
  /\ rec.stage = "start"
  /\ LET q == Trim(JsString(OrEmpty(body.query)))
     IN rec' = IF ~body.json
                 THEN [stage |-> "done", body |-> body, query |-> <<>>, table |-> <<>>,
                       reports |-> <<>>, ai |-> "none", content |-> NoContent, answer |-> Answer(500, <<>>, FALSE)]
               ELSE IF q = <<>>
                 THEN [stage |-> "done", body |-> body, query |-> q, table |-> <<>>,
                       reports |-> <<>>, ai |-> "none", content |-> NoContent, answer |-> Answer(400, <<>>, FALSE)]
               ELSE [stage |-> "query", body |-> body, query |-> q, table |-> <<>>,
                     reports |-> <<>>, ai |-> "none", content |-> NoContent, answer |-> Answer(0, <<>>, FALSE)]
  /\ UNCHANGED <<wvars, rvars, avars, qvars, svars, auth, user_login, page>>

\* const reports = await getActiveReportsWithTags(): the active rows of
\* meta.reports, or the error of withAuthedDb; without reports the answer is
\* an empty list.
LoadReports(table, error) ==
  /\ rec.stage = "query"
  /\ LET catalog == ReportRecords(table)
     IN rec' = IF error # 0
                 THEN [rec EXCEPT !.stage = "done", !.answer = Answer(error, <<>>, FALSE)]
               ELSE IF Len(catalog) = 0
                 THEN [rec EXCEPT !.stage = "done", !.table = table,
                                  !.answer = Answer(200, <<>>, FALSE)]
               ELSE [rec EXCEPT !.stage = "reports", !.table = table, !.reports = catalog]
  /\ UNCHANGED <<wvars, rvars, avars, qvars, svars, auth, user_login, page>>

\* getAiRecommendations and the rest of POST: `ai` is "none" without an API
\* key, "failed" when the call throws, "answered" with the content `content`.
Recommend(ai, content) ==
  /\ rec.stage = "reports"
  /\ LET parsed == IF ai = "answered" THEN tryParseJson(content) ELSE NoRanking
         usedAi == parsed.ranked /\ Len(parsed.items) > 0
         ranked == IF usedAi THEN parsed.items
                   ELSE scoreReportsFallback(rec.query, rec.reports)
     IN rec' = [rec EXCEPT !.stage = "done", !.ai = ai, !.content = content,
                           !.answer = Answer(200, Recommendations(ranked, rec.reports),
                                             usedAi)]
  /\ UNCHANGED <<wvars, rvars, avars, qvars, svars, auth, user_login, page>>

\* Request bodies: no JSON, no query, a blank query, queries with and
\* without a token of two characters.
Bodies ==
  {[json |-> FALSE, query |-> Null]}
    \cup [json : {TRUE},
          query : {Null, <<" ">>, <<"a">>, <<"a", "b">>, <<"A", "B", " ", "c", "d">>,
                   <<"z", "z">>}]

ReportRow(id, title, route) ==
  [id |-> id, title |-> title, category |-> <<"c", "a", "t">>, route |-> route,
   description |-> Null]

\* The active rows of meta.reports, in ORDER BY lower(category), lower(title).
ReportTables ==
  {<<>>,
   <<ReportRow("r1", <<"a", "b">>, <<" ", "/">>)>>,
   <<ReportRow("r1", <<"a", "b">>, <<"/", "a", "b", "/">>)>>,
   <<ReportRow("r1", <<"a", "b">>, <<"a", "b">>), ReportRow("r2", <<"c", "d">>, <<"c", "d">>)>>,
   <<ReportRow("r1", <<"a", "b">>, <<"a", "b">>), ReportRow("r2", <<"a", "b", "c", "d">>, <<"a", "b">>)>>,
   <<ReportRow("r1", <<"a", "b">>, <<"a", "1">>), ReportRow("r2", <<"a", "b">>, <<"a", "2">>),
     ReportRow("r3", <<"a", "b">>, <<"a", "3">>), ReportRow("r4", <<"a", "b">>, <<"a", "4">>),
     ReportRow("r5", <<"a", "b">>, <<"a", "5">>), ReportRow("r6", <<"a", "b">>, <<"a", "6">>)>>}

\* The content of the model's answer.
Proposal(route) == [route |-> route, reason |-> <<"fits">>]
Contents ==
  {NoContent, [json |-> TRUE, array |-> FALSE, items |-> <<>>]}
    \cup [json : {TRUE}, array : {TRUE},
          items : {<<>>,
                   <<Proposal(<<"a", "b">>)>>,
                   <<Proposal(<<"/", "a", "b">>), Proposal(<<"n", "o">>)>>,
                   <<Proposal(<<"n", "o">>)>>,
                   <<[route |-> <<"a", "b">>, reason |-> <<" ">>]>>,
                   <<Proposal(<<"a", "b">>), Proposal(<<"a", "b">>), Proposal(<<"a", "b">>),
                     Proposal(<<"a", "b">>), Proposal(<<"a", "b">>), Proposal(<<"a", "b">>)>>}]

NextRecommend ==
  \/ \E body \in Bodies : ReceiveRecommend(body)
  \/ \E table \in ReportTables, error \in {0, 401, 403, 500} : LoadReports(table, error)
  \/ \E ai \in {"none", "failed"} : Recommend(ai, NoContent)
  \/ \E content \in Contents : Recommend("answered", content)

SpecRecommend == InitRoutes /\ [][NextRecommend]_vars

\* ================================================================== claims
Count(l, op) == Cardinality({i \in 1..Len(l) : l[i].op = op})

Has(l, op) == \E i \in 1..Len(l) : l[i].op = op

Settled(r) == pc[r] \in {"resolved", "rejected"}

\* The client was obtained and BEGIN, set_config('app.sis_user_id') and
\* set_config('app.is_admin') were issued on it, in this order, and succeeded.
Established(l) ==
  /\ Len(l) >= 4
  /\ l[1] = Stmt("CONNECT", "ok")
  /\ l[2] = Stmt("BEGIN", "ok")
  /\ l[3] = Stmt("SET_SIS", "ok")
  /\ l[4] = Stmt("SET_ADMIN", "ok")

C3_ScopeOrder ==
  \A r \in Requests :
    LET l == log[r]
    IN /\ \A op \in {"CONNECT", "BEGIN", "SET_SIS", "SET_ADMIN", "COMMIT"} : Count(l, op) <= 1
       /\ \A i \in 1..Len(l) :
            /\ l[i].op = "CONNECT" => i = 1
            /\ l[i].op = "BEGIN" => i = 2
            /\ l[i].op = "SET_SIS" => i = 3 /\ l[2].ok
            /\ l[i].op = "SET_ADMIN" => i = 4 /\ l[3].ok
            /\ l[i].op = "QUERY" => Established(l) /\ \A j \in 5..(i - 1) : l[j] = Stmt("QUERY", "ok")
            /\ l[i].op = "COMMIT" => Established(l) /\ \A j \in 5..(i - 1) : l[j] = Stmt("QUERY", "ok")
       /\ pc[r] \in {"fn", "commit"} => Established(l)
       /\ pc[r] = "resolved" =>
            /\ Established(l)
            /\ l[Len(l)] = Stmt("RELEASE", "ok")
            /\ l[Len(l) - 1] = Stmt("COMMIT", "ok")

\* A request resolved after its callback queried.
C3_Witness ==
  \E r \in Requests : pc[r] = "resolved" /\ Has(log[r], "QUERY")

\* C9: the error path of the wrapper.  When the callback or a statement before
\* COMMIT threw, ROLLBACK was issued, no COMMIT succeeded, the result is not
\* returned and the promise rejects with the error that was thrown.
C9_ErrorPath ==
  \A r \in Requests :
    (pc[r] = "rejected" /\ thrown[r] \notin {"none", "E_COMMIT"}) =>
      /\ Has(log[r], "ROLLBACK")
      /\ ~Has(log[r], "COMMIT")
      /\ rejection[r] = thrown[r]

\* C10: connection lifecycle.  A request releases the client it obtained
\* exactly once by the time it settles, issues nothing on it after the
\* release, and a client is checked out exactly while a request holds it.
C10_Lifecycle ==
  /\ \A r \in Requests :
       LET l == log[r]
       IN /\ Count(l, "RELEASE") <= Count(l, "CONNECT")
          /\ Settled(r) => Count(l, "RELEASE") = Count(l, "CONNECT")
          /\ \A i \in 1..Len(l) : l[i].op = "RELEASE" => i = Len(l)
          /\ (conn[r] # 0) <=> (Count(l, "CONNECT") = 1 /\ Count(l, "RELEASE") = 0)
  /\ \A c \in Conns : (conns[c].st = "busy") <=> (\E r \in Requests : conn[r] = c)

\* A request whose ROLLBACK failed has released its client.
C10_Witness ==
  \E r \in Requests :
    /\ pc[r] = "rejected"
    /\ rejection[r] = "E_ROLLBACK"
    /\ Has(log[r], "RELEASE")

\* ------------------------------------------------ the scope assertion (C1, C4)
\* The read-back differs from the user character for character, or
\* app.sis_user_id reads back empty.
ReadBackDiffers(ch) ==
  \/ ch.sis \in {Null, <<>>}
  \/ ch.sis # ch.user.sis_user_id
  \/ ch.admin # BoolText(ch.user.is_admin)

\* The read-back differs from the user once surrounding whitespace is dropped:
\* app.sis_user_id is then empty or is not the text of the user's id, or
\* app.is_admin is then "true" for a user who is no admin or anything else for
\* one who is.
TrimmedDiffers(ch) ==
  LET sis == Trim(IF ch.sis = Null THEN <<>> ELSE ch.sis)
      admin == Trim(IF ch.admin = Null THEN <<>> ELSE ch.admin)
  IN \/ sis = <<>>
     \/ sis # JsString(ch.user.sis_user_id)
     \/ (admin = BoolText(TRUE)) # ch.user.is_admin

\* The request stopped at the assertion: HttpError 500 was thrown, the only
\* query on the connection is the read-back, the PII rules were not loaded, the
\* handler read nothing and returned nothing, and the request ends rejected
\* with that error (or with the error of a ROLLBACK that failed after it).
FailedClosed(r) ==
  /\ thrown[r] = "HttpError500"
  /\ Count(log[r], "QUERY") = 1
  /\ ~piiLoaded[r]
  /\ reads[r] = {}
  /\ ~value[r].set
  /\ pc[r] \in {"rollback", "release", "rejected"}
  /\ pc[r] = "rejected" => rejection[r] \in {"HttpError500", "E_ROLLBACK"}

\* C1 as stated: whenever the values read back differ from the user's
\* sis_user_id or is_admin, or app.sis_user_id reads back empty, the request
\* fails closed.
C1_FailClosedLiteral ==
  \A r \in Requests :
    (check[r].done /\ Wrapper(kind[r]) = "secure" /\ ReadBackDiffers(check[r]))
      => FailedClosed(r)

\* C1: fail-closed scope check.  In withSecureReport, whenever the read-back,
\* compared after trimming, differs from the authenticated user (or
\* app.sis_user_id is empty after trimming), assertAuthedDbContext throws
\* HttpError 500 before the PII rules are loaded and before the report callback
\* runs; no report query is issued on the connection and nothing is returned.
C1_FailClosed ==
  \A r \in Requests :
    (check[r].done /\ Wrapper(kind[r]) = "secure" /\ TrimmedDiffers(check[r]))
      => FailedClosed(r)

\* A withSecureReport request whose connection read back another user's id
\* ended rejected with HttpError 500.
C1_Witness ==
  \E r \in Requests :
    /\ check[r].done /\ Wrapper(kind[r]) = "secure"
    /\ check[r].sis \notin {Null, <<>>}
    /\ Trim(check[r].sis) # JsString(check[r].user.sis_user_id)
    /\ pc[r] = "rejected" /\ rejection[r] = "HttpError500"

\* The read-back is exactly what withDbUserContext set for the user.
ReadBackMatches(ch) ==
  /\ ch.sis = OrEmpty(ch.user.sis_user_id)
  /\ ch.admin = BoolText(ch.user.is_admin)

\* The assertion raised nothing, and a request that resolved ran the PII load
\* and the handler's row query and returned the handler's payload.
Accepted(r) ==
  /\ thrown[r] # "HttpError500"
  /\ pc[r] # "fn"
  /\ pc[r] = "resolved" => (piiLoaded[r] /\ reads[r] # {} /\ value[r].set)

\* C4 as stated: for any sis_user_id and any is_admin, a read-back equal to
\* what withDbUserContext set is accepted.
C4_MatchAcceptedLiteral ==
  \A r \in Requests :
    (check[r].done /\ Wrapper(kind[r]) = "secure" /\ ReadBackMatches(check[r]))
      => Accepted(r)

\* A sis_user_id that is a non-empty string without leading or trailing
\* whitespace.
PlainId(id) == id # Null /\ id # <<>> /\ Trim(id) = id

\* C4: matching scope is accepted.  For every user whose sis_user_id is a
\* non-empty string without surrounding whitespace, and any is_admin, when the
\* connection reads back exactly what withDbUserContext set,
\* assertAuthedDbContext raises no error, the callback runs and its payload is
\* returned.
C4_MatchAccepted ==
  \A r \in Requests :
    (/\ check[r].done /\ Wrapper(kind[r]) = "secure"
     /\ PlainId(check[r].user.sis_user_id)
     /\ ReadBackMatches(check[r]))
      => Accepted(r)

\* An admin's withSecureReport request, read back as set, resolved with rows.
C4_Witness ==
  \E r \in Requests :
    /\ check[r].done /\ Wrapper(kind[r]) = "secure"
    /\ PlainId(check[r].user.sis_user_id) /\ check[r].user.is_admin
    /\ ReadBackMatches(check[r])
    /\ pc[r] = "resolved" /\ value[r].set /\ value[r].data

\* -------------------------------------------------------- the routes (C5, C6)
\* C5: every query that reads report or warehouse rows in an API route runs
\* inside withSecureReport, on a connection whose scope was set and whose
\* read-back assertion passed before the query; none runs through the bare
\* pool or through withAuthedDb without the assertion.
C5_ReadsAreSecured ==
  \A r \in Requests : \A q \in reads[r] : q.via = "secure" /\ q.asserted

\* C6: masking precedes response.  In every report route handler, a payload
\* whose `data` holds fetched rows holds rows that passed through anonymizeRows.
C6_DataIsMasked ==
  \A r \in Requests :
    (kind[r] \in ReportRoutes /\ value[r].set /\ value[r].data) => value[r].masked

\* ------------------------------------------------------------ masking (C7, C8)
TargetOf(rule) == Trim(JsString(OrEmpty(rule.column_name)))

AlternateOf(rule) == Trim(JsString(OrEmpty(rule.alternate_column)))

\* The columns named by some rule.
PiiNames(rules) == {TargetOf(rules[i]) : i \in 1..Len(rules)}

\* Two row sets that differ only in the values of the columns in `names`.
DifferOnlyIn(rs1, rs2, names) ==
  /\ Len(rs1) = Len(rs2)
  /\ \A i \in 1..Len(rs1) :
       /\ DOMAIN rs1[i] = DOMAIN rs2[i]
       /\ \A k \in DOMAIN rs1[i] \ names : rs1[i][k] = rs2[i][k]

\* Every row set that differs from the masked one only in PII columns gives
\* the output the masked one gave.
SameOutput ==
  \A other \in RowSets :
    DifferOnlyIn(rows, other, PiiNames(piiColumns))
      => anonymizeRowsWithRules(other, piiColumns, TRUE) = output

\* C7 as stated: with masking enabled and any rule list, row sets that differ
\* only in columns named by a rule give identical output.
C7_NonInterferenceLiteral == (step = "done" /\ enabled) => SameOutput

\* No rule takes its replacement from a column that a rule names.
AlternatesAreNotPii(rules) ==
  \A i \in 1..Len(rules) : AlternateOf(rules[i]) \notin PiiNames(rules)

\* C7: PII masking is non-interfering.  With masking enabled and a rule list
\* in which no rule's (trimmed) alternate_column is the (trimmed) column_name
\* of any rule, two row sets that differ only in the values of columns named
\* by some rule's column_name produce identical output.
C7_NonInterference ==
  (step = "done" /\ enabled /\ AlternatesAreNotPii(piiColumns)) => SameOutput

\* Masking ran on rows with a PII column, under rules that replaced it, and a
\* row set with another value in that column exists.
C7_Witness ==
  /\ step = "done" /\ enabled /\ AlternatesAreNotPii(piiColumns)
  /\ output # rows
  /\ \E other \in RowSets :
       other # rows /\ DifferOnlyIn(rows, other, PiiNames(piiColumns))

\* What the replacement algorithm, rule by rule on the input row, asks of the
\* output row: the row's keys; for every rule whose column is a key of the row,
\* the input row's value for the alternate column when that is a key of the
\* row, else the redacted value; every other column unchanged.
AsInputRow(row, out, rules) ==
  /\ DOMAIN out = DOMAIN row
  /\ \A i \in 1..Len(rules) :
       TargetOf(rules[i]) \in DOMAIN row =>
         out[TargetOf(rules[i])] =
           IF AlternateOf(rules[i]) # <<>> /\ AlternateOf(rules[i]) \in DOMAIN row
             THEN row[AlternateOf(rules[i])]
             ELSE rules[i].redacted_value
  /\ \A k \in DOMAIN row : k \notin PiiNames(rules) => out[k] = row[k]

Applies(row, rule) ==
  TargetOf(rule) # <<>> /\ (TargetOf(rule) \in DOMAIN row \/ TargetOf(rule) \in ProtoKeys)

\* The value of property c once the first n rules have been applied: that of
\* the last of them that applies to the row and names c, which is the value
\* its alternate column had before it when that is a property of the row, and
\* its redacted value otherwise; the row's own or inherited value when there
\* is none.
RECURSIVE ValueAfter(_, _, _, _)
ValueAfter(row, rules, n, c) ==
  IF n = 0 THEN (IF c \in DOMAIN row THEN row[c] ELSE ProtoValue)
  ELSE IF Applies(row, rules[n]) /\ TargetOf(rules[n]) = c
    THEN IF /\ AlternateOf(rules[n]) # <<>>
            /\ (AlternateOf(rules[n]) \in DOMAIN row \/ AlternateOf(rules[n]) \in ProtoKeys)
           THEN ValueAfter(row, rules, n - 1, AlternateOf(rules[n]))
           ELSE rules[n].redacted_value
    ELSE ValueAfter(row, rules, n - 1, c)

Answered == query.stage = "done"

\* The positions of the placeholders of a text, and the number each one names.
PlaceholderAt(text) == {i \in 1..Len(text) - 1 : text[i] = "$"}
Num(d) == IF \E k \in 1..Len(DecimalDigits) : DecimalDigits[k] = d
            THEN CHOOSE k \in 1..Len(DecimalDigits) : DecimalDigits[k] = d
            ELSE 0
PlaceholderNums(text) == {Num(text[i + 1]) : i \in PlaceholderAt(text)}

\* A text has exactly the placeholders $1..$n, once each.
ExactPlaceholders(q) ==
  /\ Cardinality(PlaceholderAt(q.text)) = Len(q.params)
  /\ PlaceholderNums(q.text) = 1..Len(q.params)

\* Each placeholder stands in a predicate `column op $k`, and the k-th
\* parameter is the value the builder was given for that column.
ArgsOf(q) == {q.args[i] : i \in 1..Len(q.args)} \cup {q.fixed[i] : i \in 1..Len(q.fixed)}
BoundInOrder(q) ==
  \A i \in PlaceholderAt(q.text) :
    /\ i > 2
    /\ Num(q.text[i + 1]) \in 1..Len(q.params)
    /\ \E a \in ArgsOf(q) :
         /\ a.column = q.text[i - 2]
         /\ q.params[Num(q.text[i + 1])] = a.value

\* The values a request carries, as sent and as cleaned.
Sent ==
  LET raw == {query.request.academic_year, query.request.program_code,
              query.request.third, query.request.other}
  IN {v \in raw \cup {cleanFilter(w) : w \in raw} : Truthy(v)}
Inline(v, text) ==
  \E i \in 1..(Len(text) - Len(v) + 1) : SubSeq(text, i, i + Len(v) - 1) = v
NoValueInline(q) == \A v \in Sent : ~Inline(v, q.text)

CourseNameLiterals == {"c.course_name", "c.course_title", "c.name", "NULL::text"}
ProbeLiterals ==
  CourseNameLiterals
    \cup {"s.chance_to_graduate::double precision AS chance_to_graduate",
          "NULL::double precision AS chance_to_graduate",
          "LEFT JOIN users u ON u.sis_user_id = s.sis_user_id", "",
          " u.first_name, u.last_name, ",
          " NULL::text AS first_name, NULL::text AS last_name, "}
FragmentsIn(q, literals) == \A i \in 1..Len(q.frags) : q.frags[i] \in literals

Parameterised(q) == ExactPlaceholders(q) /\ BoundInOrder(q) /\ NoValueInline(q)

\* C11 as stated: every text the report routes build has exactly the
\* placeholders $1..$n bound in order, carries no request value inline, and
\* its only other interpolated fragment is a course-name literal.
C11_ParameterSafetyLiteral ==
  Answered =>
    \A i \in 1..Len(query.queries) :
      /\ Parameterised(query.queries[i])
      /\ FragmentsIn(query.queries[i], CourseNameLiterals)

\* C11 (amended): every text the course-readiness, instructor-metrics, config
\* and yearly-graduates routes build has exactly the placeholders $1..$n, the
\* k-th parameter being the value of the predicate that names $k, and carries
\* no request value inline; every other interpolated fragment is one of the
\* fixed literals a catalog probe selects: the course-name expression, and in
\* yearly-graduates the user-name columns, the chance-to-graduate column and
\* the users join.
C11_ParameterSafety ==
  Answered =>
    \A i \in 1..Len(query.queries) :
      /\ Parameterised(query.queries[i])
      /\ FragmentsIn(query.queries[i], ProbeLiterals)

\* A row query with two bound filters and a probed course-name expression.
C11_Witness ==
  /\ Answered
  /\ query.route = "course-readiness"
  /\ \E i \in 1..Len(query.queries) :
       /\ query.queries[i].fn = "getRows"
       /\ Len(query.queries[i].params) >= 2
       /\ query.queries[i].frags = <<"c.course_title">>

\* The routes whose row query takes optional filters, and the column each
\* request key restricts.
OptionalRoutes == {"course-readiness", "instructor-metrics", "config"}
FilterKeys(route) ==
  IF route = "course-readiness"
    THEN <<Arg("ccr.academic_year", query.request.academic_year),
           Arg("ccr.program_code", query.request.program_code),
           Arg("ccr.course_type", query.request.third)>>
  ELSE IF route = "instructor-metrics"
    THEN <<Arg("im.academic_year", query.request.academic_year),
           Arg("im.program_code", query.request.program_code)>>
  ELSE <<Arg("im.academic_year", query.request.academic_year),
         Arg("im.department_code", query.request.program_code)>>

RowQueries ==
  {query.queries[i] : i \in {j \in 1..Len(query.queries) : query.queries[j].fn = "getRows"}}

\* The predicates of a text on one column, and its WHERE keyword.
PredicatesOn(q, column) ==
  {i \in 1..Len(q.text) - 2 :
     q.text[i] = column /\ q.text[i + 1] = " = " /\ q.text[i + 2] = "$"}
HasWhere(q) == \E i \in 1..Len(q.text) : q.text[i] = "WHERE "
Blank(v) == v = Null \/ Trim(v) = <<>>
Supplied(filters) == {i \in 1..Len(filters) : ~Blank(filters[i].value)}
NonEmpty(filters) == {i \in 1..Len(filters) : Truthy(filters[i].value)}

\* A row query has one predicate and one parameter for each filter of
\* `filters` at a position in `given`, none for the others, and no WHERE
\* clause when `given` is empty.
OnePredicateEach(q, filters, given) ==
  /\ \A i \in 1..Len(filters) :
       Cardinality(PredicatesOn(q, filters[i].column)) = IF i \in given THEN 1 ELSE 0
  /\ Len(q.params) = Cardinality(given)
  /\ HasWhere(q) <=> given # {}

UnreadKeyIgnored ==
  GET(query.route, query.request, query.catalog)
    = GET(query.route, [query.request EXCEPT !.other = Null], query.catalog)

\* C12 as stated: whenever a row query is built, each request filter that is
\* absent, empty or whitespace-only contributes nothing, each supplied one
\* exactly one predicate and one parameter, and unread keys change nothing.
C12_FilterOptionalityLiteral ==
  (Answered /\ query.route \in OptionalRoutes) =>
    /\ \A q \in RowQueries :
         OnePredicateEach(q, FilterKeys(query.route), Supplied(FilterKeys(query.route)))
    /\ UnreadKeyIgnored

\* C12 (amended): in the course-readiness, instructor-metrics and config
\* routes, getRows adds exactly one predicate and one parameter for each
\* argument that is a non-empty string, nothing for a null or empty one, and
\* no WHERE clause when all are; without include_meta its arguments are the
\* trimmed request values, so an absent, empty or whitespace-only filter
\* contributes nothing and each supplied one exactly one predicate; with
\* include_meta the arguments are the handler's selections from the option
\* lists instead.  Request keys the route does not read never change the
\* queries.
C12_FilterOptionality ==
  (Answered /\ query.route \in OptionalRoutes) =>
    /\ \A q \in RowQueries :
         /\ OnePredicateEach(q, q.args, NonEmpty(q.args))
         /\ ~ParseBool(query.request.include_meta)
              => OnePredicateEach(q, FilterKeys(query.route),
                                  Supplied(FilterKeys(query.route)))
    /\ UnreadKeyIgnored

\* Without include_meta: one filter padded with whitespace, one whitespace-only,
\* one absent; the row query has a single predicate.
C12_Witness ==
  /\ Answered
  /\ query.route = "course-readiness"
  /\ ~ParseBool(query.request.include_meta)
  /\ query.request.academic_year = <<" ", "a">>
  /\ query.request.program_code = <<" ">>
  /\ query.request.third = Null
  /\ \E q \in RowQueries : q.params = << <<"a">> >> /\ HasWhere(q)

\* ------------------------------------------ the source graph (C13, C14, C17)
Loaded == result.op = "load"

\* C13: loading a report's graph succeeds exactly when one active source row
\* of the report has role base; with none or several it raises
\* GraphIntegrityError and returns no graph.
C13_SingleBase ==
  Loaded =>
    /\ result.error = "none" <=> Cardinality(ActiveBases(result.report)) = 1
    /\ result.error = "none" =>
         /\ Len(result.graph) = 1
         /\ result.graph[1].base \in ActiveBases(result.report)
    /\ result.error # "none" =>
         /\ result.error = "GraphIntegrityError"
         /\ result.graph = <<>>

\* Two active base rows of one report: the load is refused.
C13_Witness ==
  /\ Loaded
  /\ Cardinality(ActiveBases(result.report)) = 2
  /\ result.error = "GraphIntegrityError"

\* The reports the lineage view lists for a table, and the reports that have
\* an active source row naming it.
Schema == <<"d", "a", "t", "a">>
Tables == {Ident("t"), Ident("u")}
ReportsUsing(table) ==
  {row.report_id :
     row \in {u \in result.rows : u.source_schema = Schema /\ u.source_name = table}}
HasActiveSource(r, table) ==
  \E i \in 1..Len(deps) :
    /\ deps[i].report_id = r
    /\ deps[i].is_active = TRUE
    /\ deps[i].source_schema = Schema
    /\ deps[i].source_name = table
HasSource(r, table) ==
  \E i \in 1..Len(deps) :
    deps[i].report_id = r /\ deps[i].source_schema = Schema /\ deps[i].source_name = table

\* C17 as stated: a report is in the lineage of a table exactly when it has
\* an active source row naming the table.
C17_LineageLiteral ==
  result.op = "usage" =>
    \A r \in ReportIds, table \in Tables :
      r \in ReportsUsing(table) <=> HasActiveSource(r, table)

\* C17 (amended): a report is in the lineage of a table exactly when the
\* report is active and has an active source row naming the table; a report
\* whose rows for the table are all deactivated is in no later lineage result.
C17_Lineage ==
  result.op = "usage" =>
    \A r \in ReportIds, table \in Tables :
      r \in ReportsUsing(table)
        <=> (r \in DOMAIN reports /\ reports[r] = TRUE /\ HasActiveSource(r, table))

\* An active report whose only source row for a table was deactivated is
\* missing from the lineage, next to a report that is still listed.
C17_Witness ==
  /\ result.op = "usage"
  /\ \E r \in ReportIds, table \in Tables :
       /\ r \in DOMAIN reports
       /\ reports[r] = TRUE
       /\ HasSource(r, table)
       /\ ~HasActiveSource(r, table)
       /\ r \notin ReportsUsing(table)
       /\ ReportsUsing(table) # {}

\* The graph a validation ran on, and the node of an alias in it.
Checked == result.op = "validate" /\ result.error = "none"
NodesOf(g, alias) == {k \in Positions(g.nodes) : g.nodes[k].row.source_alias = alias}

\* Following join_to_alias from `alias` arrives at the base within `fuel` steps.
RECURSIVE ReachesBase(_, _, _)
ReachesBase(g, alias, fuel) ==
  IF NodesOf(g, alias) = {} THEN FALSE
  ELSE LET k == CHOOSE n \in NodesOf(g, alias) : TRUE
       IN IF g.nodes[k].row.relation_role = "base" THEN g.nodes[k].id = g.base
          ELSE IF fuel = 0 THEN FALSE
          ELSE ReachesBase(g, g.nodes[k].row.join_to_alias, fuel - 1)

\* A join whose target is its own alias, or no alias of a node with a smaller
\* dependency_id.
Dangling(g, k) ==
  \/ g.nodes[k].row.join_to_alias = g.nodes[k].row.source_alias
  \/ ~\E j \in Positions(g.nodes) :
        /\ g.nodes[j].id < g.nodes[k].id
        /\ g.nodes[j].row.source_alias = g.nodes[k].row.join_to_alias

\* C14: a graph with a join that targets its own alias or an alias not
\* declared earlier fails structural validation; in a graph that passes, every
\* join reaches the base by following join_to_alias.
C14_JoinDag ==
  Checked =>
    LET g == result.graph[1]
    IN /\ (\E k \in JoinNodes(g) : Dangling(g, k)) => ~result.ok
       /\ result.ok =>
            \A k \in JoinNodes(g) :
              ReachesBase(g, g.nodes[k].row.source_alias, Len(g.nodes))

\* A graph with a join passes validation.
C14_Witness ==
  /\ Checked
  /\ result.ok
  /\ JoinNodes(result.graph[1]) # {}

\* ------------------------------------------------ the aggregation rule (C16)
Compiled == result.op = "compile"
ActiveFieldRows(r) == {fields[i] : i \in ActiveRows(fields, r)}
ActiveAggregates(r) == {f \in ActiveFieldRows(r) : f.expression_type = "aggregate"}
ActivePlainKeys(r) == {f.output_key : f \in ActiveFieldRows(r) \ ActiveAggregates(r)}
ActiveGroupedKeys(r) == {grouping[i].output_key : i \in ActiveRows(grouping, r)}
Grouped(r) == ActivePlainKeys(r) \subseteq ActiveGroupedKeys(r)

\* C16: with an active aggregate field, compilation succeeds only when every
\* active non-aggregate output key is among the active grouping rows;
\* otherwise it fails with GroupingMismatchError and produces no query.
C16_AggregationConsistency ==
  (Compiled /\ ActiveAggregates(result.report) # {}) =>
    /\ result.error = "none" => Grouped(result.report)
    /\ result.error # "none" => result.query = <<>>
    /\ (Validated(result.report).ok /\ ~Grouped(result.report))
         => result.error = "GroupingMismatchError"
    /\ (Validated(result.report).ok /\ Grouped(result.report))
         => (result.error = "none" /\ Len(result.query) = 1)

\* An aggregate next to a plain field that only an inactive grouping row names.
C16_Witness ==
  /\ Compiled
  /\ result.error = "GroupingMismatchError"
  /\ ActiveAggregates(result.report) # {}
  /\ \E i \in 1..Len(grouping) :
       /\ grouping[i].is_active = FALSE
       /\ grouping[i].output_key \in ActivePlainKeys(result.report)

\* ------------------------------------------- the stored rows (C15, C18, C19, C20)
\* Every alias, schema, table and column identifier a table holds.
StoredIdentifiers ==
  UNION {{deps[i].source_alias, deps[i].source_schema, deps[i].source_name} :
           i \in 1..Len(deps)}
    \cup {deps[i].join_to_alias : i \in {j \in 1..Len(deps) : deps[j].join_to_alias # Null}}
    \cup UNION {{joins[i].left_alias, joins[i].left_column, joins[i].right_alias,
                 joins[i].right_column} : i \in 1..Len(joins)}
    \cup UNION {{fields[i].source_alias, fields[i].source_column, fields[i].output_key} :
                  i \in 1..Len(fields)}
    \cup UNION {{bindings[i].source_alias, bindings[i].source_column} :
                  i \in 1..Len(bindings)}

\* C15: every alias, schema, table and column identifier stored in a source
\* row, join predicate, output field or filter binding matches
\* ^[a-z][a-z0-9_]*$.
C15_IdentifierGrammar == \A v \in StoredIdentifiers : IsIdentifier(v)

HasActiveAlias(r, alias) == \E i \in ActiveRows(deps, r) : deps[i].source_alias = alias
HasActiveKey(r, key) == \E i \in ActiveRows(fields, r) : fields[i].output_key = key

\* C18: each alias of an active output field, filter binding or join
\* predicate names an active source row of the same report, and each output
\* key of an active grouping or sorting row names an active output field of
\* the same report.
C18_ReferentialValidity ==
  /\ \A i \in 1..Len(fields) :
       fields[i].is_active => HasActiveAlias(fields[i].report_id, fields[i].source_alias)
  /\ \A i \in 1..Len(bindings) :
       bindings[i].is_active
         => HasActiveAlias(bindings[i].report_id, bindings[i].source_alias)
  /\ \A i \in 1..Len(joins) :
       joins[i].is_active =>
         /\ HasActiveAlias(deps[joins[i].dependency_id].report_id, joins[i].left_alias)
         /\ HasActiveAlias(deps[joins[i].dependency_id].report_id, joins[i].right_alias)
  /\ \A i \in 1..Len(grouping) :
       grouping[i].is_active => HasActiveKey(grouping[i].report_id, grouping[i].output_key)
  /\ \A i \in 1..Len(sorting) :
       sorting[i].is_active => HasActiveKey(sorting[i].report_id, sorting[i].output_key)

\* C19: an output field row has an aggregate function exactly when its
\* expression kind is aggregate.
C19_AggregateFunction ==
  \A i \in 1..Len(fields) :
    fields[i].aggregate_fn # NullText <=> fields[i].expression_type = "aggregate"

NoSharedAlias ==
  \A i, j \in 1..Len(deps) :
    (deps[i].report_id = deps[j].report_id /\ deps[i].source_alias = deps[j].source_alias)
      => i = j
NoSharedKey ==
  \A i, j \in 1..Len(fields) :
    (fields[i].report_id = fields[j].report_id /\ fields[i].output_key = fields[j].output_key)
      => i = j
Rejected == result.op = "write" /\ result.state = "unique_violation"

\* C20: no two source rows of a report share an alias, no two output fields of
\* a report share an output key, and a statement rejected for a duplicate
\* leaves every table unchanged.
C20_Uniqueness ==
  /\ [](NoSharedAlias /\ NoSharedKey)
  /\ [][Rejected' => UNCHANGED <<reports, deps, joins, fields, bindings, grouping, sorting>>]_vars

\* A duplicate output key was refused while the tables hold rows.
C20_Witness ==
  /\ Rejected
  /\ result.table = "report_dependency_fields"
  /\ Len(fields) >= 1
  /\ Len(deps) >= 1

\* ------------------------------------------------------ base and join rows (C21)
\* C21: a source row with role base has neither a join type nor a join target
\* alias, and a source row with role join has a join type among inner, left,
\* right, full, cross and a join target alias.
C21_BaseJoinShape ==
  \A i \in 1..Len(deps) :
    /\ deps[i].relation_role \in {"base", "join"}
    /\ deps[i].relation_role = "base"
         => deps[i].join_type = NullText /\ deps[i].join_to_alias = Null
    /\ deps[i].relation_role = "join"
         => deps[i].join_type \in JoinTypes /\ deps[i].join_to_alias # Null

\* A base row and a join row are stored, and a join without a target was
\* refused.
C21_Witness ==
  /\ \E i, j \in 1..Len(deps) :
       deps[i].relation_role = "base" /\ deps[j].relation_role = "join"
  /\ result.op = "write" /\ result.state = "check_violation"

\* ------------------------------------------------------- deleted reports (C22)
\* The rows of a table that belong to other reports than r.
Rest(table, r) == SelectSeq(table, LAMBDA row : row.report_id # r)

\* The join predicates of `table` whose source row, among `sources`, belongs
\* to another report than r.
RestPredicates(table, sources, r) ==
  SelectSeq(table, LAMBDA row : sources[row.dependency_id].report_id # r)

ReportDeleted(r) == result.op = "delete" /\ result.report = r

\* No row of report r remains; `sources` are the source rows before the delete.
NothingRemains(r, sources) ==
  /\ r \notin DOMAIN reports
  /\ \A i \in 1..Len(deps) : deps[i].report_id # r
  /\ \A i \in 1..Len(joins) : sources[joins[i].dependency_id].report_id # r
  /\ \A i \in 1..Len(fields) : fields[i].report_id # r
  /\ \A i \in 1..Len(bindings) : bindings[i].report_id # r
  /\ \A i \in 1..Len(grouping) : grouping[i].report_id # r
  /\ \A i \in 1..Len(sorting) : sorting[i].report_id # r

\* C22: after a report is deleted, no source row, join predicate, output
\* field, filter binding, grouping row or sorting row of that report remains,
\* and the rows of the other reports are unchanged.
C22_CascadeDelete ==
  [][\A r \in ReportIds :
       ReportDeleted(r)' =>
         /\ NothingRemains(r, deps)'
         /\ \A i \in 1..Len(joins') : deps[joins'[i].dependency_id].report_id # r
         /\ \A q \in DOMAIN reports \ {r} : q \in DOMAIN reports' /\ reports'[q] = reports[q]
         /\ Len(deps') = Len(deps)
         /\ \A i \in 1..Len(deps) : deps[i].report_id # r => deps'[i] = deps[i]
         /\ joins' = RestPredicates(joins, deps, r)
         /\ fields' = Rest(fields, r)
         /\ bindings' = Rest(bindings, r)
         /\ grouping' = Rest(grouping, r)
         /\ sorting' = Rest(sorting, r)]_vars

\* Report r1 was deleted with a source row, while r2 keeps a source row, its
\* join predicate, an output field, a filter binding, a grouping row and a
\* sorting row.
C22_Witness ==
  /\ ReportDeleted("r1")
  /\ \E i \in 1..Len(deps) : deps[i] = Gap
  /\ \E i \in 1..Len(joins) : deps[joins[i].dependency_id].report_id = "r2"
  /\ Len(fields) = 1 /\ Len(bindings) = 1 /\ Len(grouping) = 1 /\ Len(sorting) = 1

\* --------------------------------------------------------- masking on request (C23)
\* The answer of withSecureReport is complete.
Masked == step = "done"
OptedIn == anon[1] \in {<<"1">>, <<"t", "r", "u", "e">>}

\* C23: masking is applied only when the `anonymize` query parameter is
\* exactly "1" or "true"; for an absent parameter or any other value
\* anonymizeRows returns the rows with every value unchanged and
\* meta.anonymized is false.
C23_MaskingOptIn ==
  Masked =>
    /\ output # rows => OptedIn
    /\ enabled <=> OptedIn
    /\ ~OptedIn => output = rows /\ ~enabled

\* A row with a listed column came back unmasked for anonymize=TRUE, with a
\* rule that would have replaced its value.
C23_Witness ==
  /\ Masked
  /\ anon[1] = <<"T", "R", "U", "E">>
  /\ Len(rows) >= 1
  /\ anonymizeRowsWithRules(rows, piiColumns, TRUE) # rows
  /\ output = rows

\* ------------------------------------------------------------ masking frame (C30)
\* C30: anonymizeRowsWithRules leaves its input rows and its rule list as they
\* are, and returns as many rows, in the same order, each with exactly the
\* keys of the input row at its place.
C30_MaskingFrame ==
  /\ [][step' = "done" => rows' = rows /\ piiColumns' = piiColumns]_vars
  /\ [](step = "done" =>
          /\ Len(output) = Len(rows)
          /\ \A i \in 1..Len(rows) : DOMAIN output[i] = DOMAIN rows[i])

\* ------------------------------------------------------- who is let in (C29)
Started(r) == auth[r].pc # "start"
Bypass(env) == env.SKIP_AUTH = "true" /\ env.NODE_ENV # "production"

\* The X-Email header as sent, or DEV_EMAIL as set under the bypass when the
\* header is absent or empty.
EffectiveEmail(h, env) ==
  IF OrEmpty(h.x_email) # <<>> THEN h.x_email
  ELSE IF Bypass(env) THEN OrEmpty(env.DEV_EMAIL)
  ELSE <<>>

\* The same, trimmed and lower-cased, with a blank header counted as empty.
Normal(v) == ToLowerCase(Trim(OrEmpty(v)))
NormalEmail(h, env) ==
  IF Normal(h.x_email) # <<>> THEN Normal(h.x_email)
  ELSE IF Bypass(env) THEN Normal(env.DEV_EMAIL)
  ELSE <<>>

Is(error, status, text) == error.status = status /\ error.error = text

\* C29 as stated: a user is returned only if the effective email is
\* non-empty, ends with @btech.edu, is the email of a provisioned account and
\* that account is active; otherwise 401 (missing email) or 403 (wrong domain,
\* not provisioned, disabled) is thrown, checked in that order.
C29_RequireAuthLiteral ==
  \A r \in Requests :
    Started(r) =>
      LET e == EffectiveEmail(auth[r].headers, auth[r].env)
          accounts == {u \in AuthUsers : u.email = e}
          allowed == /\ e # <<>>
                     /\ EndsWith(e, BtechDomain)
                     /\ \E u \in accounts : u.is_active
      IN /\ auth[r].pc = "returned" => allowed
         /\ auth[r].pc = "thrown" =>
              /\ ~allowed
              /\ IF e = <<>>
                   THEN Is(auth[r].error, 401, "Unauthorized: missing X-Email header")
                 ELSE IF ~EndsWith(e, BtechDomain)
                   THEN Is(auth[r].error, 403, "Forbidden: must be @btech.edu")
                 ELSE IF accounts = {}
                   THEN Is(auth[r].error, 403, "Access not provisioned")
                 ELSE Is(auth[r].error, 403, "Account disabled")

\* C29, amended: the effective email is taken trimmed and lower-cased and is
\* compared with the lower-cased email of the account row the lookup returns;
\* a user is returned only if it is non-empty, ends with @btech.edu, has such a
\* row and the row is active; otherwise 401 or 403 is thrown in the stated
\* order, unless a query of requireAuth failed, whose error is thrown as it is.
C29_RequireAuth ==
  \A r \in Requests :
    Started(r) =>
      LET e == NormalEmail(auth[r].headers, auth[r].env)
          accounts == {u \in AuthUsers : ToLowerCase(u.email) = e}
          allowed == /\ e # <<>>
                     /\ EndsWith(e, BtechDomain)
                     /\ auth[r].u \in accounts
                     /\ auth[r].u.is_active
      IN /\ auth[r].pc = "returned" => allowed
         /\ auth[r].pc = "thrown" =>
              IF e = <<>>
                THEN Is(auth[r].error, 401, "Unauthorized: missing X-Email header")
              ELSE IF ~EndsWith(e, BtechDomain)
                THEN Is(auth[r].error, 403, "Forbidden: must be @btech.edu")
              ELSE \/ auth[r].error = QueryError
                   \/ accounts = {} /\ Is(auth[r].error, 403, "Access not provisioned")
                   \/ /\ auth[r].u \in accounts
                      /\ ~auth[r].u.is_active
                      /\ Is(auth[r].error, 403, "Account disabled")

\* A capitalised X-Email header was accepted for the account
\* whose email is stored in lower case.
C29_Witness ==
  /\ Started(1)
  /\ auth[1].pc = "returned"
  /\ auth[1].headers.x_email = <<"A", "@", "B", "T", "E", "C", "H", ".", "E", "D", "U">>
  /\ auth[1].u.sis_user_id = <<"1">>

\* ------------------------------------------------------- login events (C24)
AuthSettled(r) == auth[r].pc \in {"returned", "thrown"}

\* The successful rows of auth.user_login for a user and a source.
LoginRows(sis_user_id, source) ==
  {i \in 1..Len(user_login) :
     /\ user_login[i].sis_user_id = sis_user_id
     /\ user_login[i].source = source
     /\ user_login[i].success = TRUE}

\* C24: once the concurrent requireAuth calls of one user have ended,
\* auth.user_login holds at most one successful row for each (sis_user_id,
\* source) pair.
C24_LoginOnce ==
  (\A r \in Requests : AuthSettled(r)) =>
    \A i \in 1..Len(user_login) :
      Cardinality(LoginRows(user_login[i].sis_user_id, user_login[i].source)) <= 1

\* -------------------------------------------------- the rows a page shows (C25)
AllSettled == page.stage = "mounted" /\ Pending(page) = {}
Latest == page.fetches[Len(page.fetches)]

\* C25: once all fetches in flight have settled, `rows` holds the result of the
\* refresh started last: what fetchRows resolved with for the latest search
\* parameters and anonymize setting, or the error rows when it rejected.
C25_LatestRequestWins ==
  AllSettled =>
    /\ Latest.searchParams = page.searchParamsKey
    /\ Latest.anonymize = page.anonymize
    /\ page.rows =
         IF Latest.state = "resolved"
           THEN RowsOf("fetchRows", Latest.searchParams, Latest.anonymize)
         ELSE IF page.options.onError THEN ErrorRows ELSE InitialRows

\* ------------------------------------- the course-readiness selections (C26)
\* A request value as the handler reads it: trimmed, null when blank.
Requested(v) == IF Blank(v) THEN Null ELSE Trim(v)

\* The requested value when it is among the options, otherwise `fallback`.
Cascade(v, options, fallback) ==
  IF Requested(v) # Null /\ (\E i \in 1..Len(options) : options[i] = Requested(v))
    THEN Requested(v)
    ELSE fallback

WithMeta ==
  /\ Answered
  /\ query.route = "course-readiness"
  /\ ParseBool(query.request.include_meta)

\* meta.selected follows the cascade over the option lists read.
SelectionsCascade ==
  LET selected == query.selected[1]
      cat == query.catalog
  IN /\ selected.academic_year =
          Cascade(query.request.academic_year, cat.years,
                  IF cat.years = <<>> THEN Null ELSE cat.years[1])
     /\ selected.program_code = Cascade(query.request.program_code, cat.programs, Null)
     /\ selected.course_type = Cascade(query.request.third, cat.thirds, Null)

SelectedFilters ==
  <<Arg("ccr.academic_year", query.selected[1].academic_year),
    Arg("ccr.program_code", query.selected[1].program_code),
    Arg("ccr.course_type", query.selected[1].course_type)>>

\* The row query has one predicate for each filter at a position in `given`,
\* bound to that filter's value, in order.
FilteredBy(q, filters, given) ==
  /\ OnePredicateEach(q, filters, given)
  /\ q.params = [i \in 1..Len(q.params) |->
                   filters[CHOOSE k \in given :
                             Cardinality({j \in given : j <= k}) = i].value]

\* C26 as stated: with include_meta=1 the selected year is the requested one
\* when available and otherwise the first year (null when none), the selected
\* program and course type are the requested ones when listed and otherwise
\* null, and the row query is filtered by exactly the values reported in
\* meta.selected.
C26_FilterCascadeLiteral ==
  WithMeta =>
    /\ SelectionsCascade
    /\ \A q \in RowQueries :
         FilteredBy(q, SelectedFilters,
                    {i \in 1..Len(SelectedFilters) : SelectedFilters[i].value # Null})

\* C26, amended: the same, with the row query filtered by exactly the
\* non-empty values reported in meta.selected; an empty first academic year is
\* reported and not filtered on.
C26_FilterCascade ==
  WithMeta =>
    /\ SelectionsCascade
    /\ \A q \in RowQueries : FilteredBy(q, SelectedFilters, NonEmpty(SelectedFilters))

\* The requested year is the second of two available years and is selected;
\* the requested program is not listed and none is selected; the row query
\* has the year as its only parameter.
C26_Witness ==
  /\ WithMeta
  /\ query.catalog.years = << <<"b">>, <<"a">> >>
  /\ query.request.academic_year = <<" ", "a">>
  /\ query.request.program_code = <<"a">>
  /\ query.catalog.programs = <<>>
  /\ query.selected[1].program_code = Null
  /\ \E q \in RowQueries : q.params = << <<"a">> >>

\* ------------------------------------------------- recommendations (C27, C28)
Recommended == rec.stage = "done" /\ rec.answer.status = 200

\* C27: every recommendation of an answer refers to a report of the catalog
\* loaded for the request, and an answer has at most 5 recommendations.
C27_InsideCatalog ==
  Recommended =>
    /\ Len(rec.answer.recommendations) <= MaxRecommendations
    /\ \A n \in 1..Len(rec.answer.recommendations) :
         \E i \in 1..Len(rec.reports) :
           /\ rec.reports[i].id = rec.answer.recommendations[n].id
           /\ rec.reports[i].route = rec.answer.recommendations[n].route
           /\ \E k \in 1..Len(rec.table) :
                rec.table[k].id = rec.reports[i].id

\* The AI proposed a report of the catalog and a route that is not in it: the
\* answer holds the first only.
C27_Witness ==
  /\ Recommended
  /\ rec.ai = "answered"
  /\ Len(rec.content.items) = 2
  /\ rec.content.items[2].route = <<"n", "o">>
  /\ Len(rec.answer.recommendations) = 1
  /\ rec.answer.recommendations[1].route = <<"a", "b">>

\* C28: with a non-empty query and at least one active report in the catalog,
\* the answer holds at least one recommendation, whether the AI call succeeds,
\* fails or returns an unusable answer.
C28_NeverEmpty ==
  (Recommended /\ rec.query # <<>> /\ Len(rec.reports) >= 1) =>
    Len(rec.answer.recommendations) >= 1

====
